---- MODULE Spec2Model ----
(***************************************************************************)
(* Notion2All: the incremental backup engine of packages/core.             *)
(*                                                                         *)
(*   NotionCacheService    packages/core/src/notion/services/cache.ts      *)
(*   NotionPageCoordinator unnamed/part_011 (services/coordinator.ts with  *)
(*                         the enableCache option and batchProcessPages)   *)
(*   NotionPageSaver       packages/core/src/notion/services/saver.ts      *)
(*   backupCommand         packages/cli/src/commands/backup.ts             *)
(*                                                                         *)
(* JavaScript runs every callback to completion; the interleaving points   *)
(* of the model are the awaits of the code.  A step that only awaits a     *)
(* read of the remote tree (which no run modifies) or of a file no         *)
(* concurrent callback writes is merged with the callback that follows it. *)
(*                                                                         *)
(*   Spec         runs of the backup command on one root page, with remote *)
(*                edits between the runs                                   *)
(*   SpecCleanup  the load of a cache-map file of any accepted shape       *)
(*   SpecCache    shouldUpdate and updateCache called directly             *)
(*   SpecFaults   the backup command over several roots, with failing      *)
(*                collaborators                                            *)
(*   SpecReload   the cache service over an unreadable cache-map file      *)
(*   SpecHash     calculateContentHash over edited page objects            *)
(*   SpecPersist  snapshots and digests through JSON and the file system   *)
(*   SpecDetect   change detection on a recorded tree                      *)
(*   SpecPartial  the partial update of the flagged child pages            *)
(*   SpecListing  fetchFullPageData, listing by listing                    *)
(*   SpecOwners   runs on a tree whose child pages lie inside a block      *)
(*   SpecUpsert   updateCache calls with the ancestors in tree order       *)
(*   SpecRetry    fetchBlockChildren, attempt by attempt                   *)
(*   SpecDownload saveFile of NotionFileDownloader, request by request;    *)
(*                SpecDownloadFair adds that a pending step is taken       *)
(*   SpecLock     callers of withLock on one lock of createAsyncLock       *)
(***************************************************************************)
EXTENDS Integers, Sequences, FiniteSets, TLC

VARIABLES
    shape,              \* which remote document tree is mirrored
    remote,             \* remote[p] = [let, ver]: last_edited_time and content of page p
    files,              \* the output directory: path -> snapshot written by savePageData
    cacheDisk,          \* .cache/cache-map.json: [exists, pages]
    cacheMem,           \* NotionCacheService.cacheMap.pages
    pendingUpdates,     \* NotionCacheService.pendingUpdates
    updatedChildPages,  \* NotionCacheService.updatedChildPages
    resourcePageMap,    \* NotionPageCoordinator.resourcePageMap
    cfg,                \* the options of the run (coordinator config, fetcher given to the cache)
    tasks,              \* the async calls of the run: processPage / shouldUpdate invocations
    phase,              \* "idle" between runs, "running" during a run, "lib" in the cache-only specs
    stats,              \* what the run did: full fetches, snapshot writes, cache writes, downloads
    hist                \* facts about the start of the run and about the previous run

vars == <<shape, remote, files, cacheDisk, cacheMem, pendingUpdates, updatedChildPages,
          resourcePageMap, cfg, tasks, phase, stats, hist>>

(***************************************************************************)
(* Bounds                                                                  *)
(***************************************************************************)
MaxRuns == 2        \* runs of the backup command
MaxEdits == 2       \* remote edits of pages between the runs
MaxCalls == 3       \* calls in the cache-only specification
MaxRecs == 4        \* records of a cache-map file loaded in the cleanup specification
MaxFaults == 1      \* failing calls of a collaborator in the run with failures
MaxBlocks == 2      \* direct child blocks of the page object that is hashed
MaxSize == 3        \* bytes of a downloaded file (content-length)
MaxRetry == 2       \* largest retryCount option of a download
MaxChunk == 2       \* largest chunkSize option, and most bytes one response delivers
MaxCallers == 3     \* callers that share one lock
MaxTickets == 4     \* withLock calls on one lock

(***************************************************************************)
(* Identifiers.  "p" is page P spelled without hyphens (the form of the    *)
(* config file); every other id is already in the hyphenated form.         *)
(***************************************************************************)
Undef == "undefined"
PageIds == {"P", "C", "G", "N", "D"}
RawIds == PageIds \cup {"p"}

formatId(id) == IF id = "p" THEN "P" ELSE id

FormatChain(chain) == [i \in 1..Len(chain) |-> formatId(chain[i])]

(***************************************************************************)
(* The cache map.  A PageCacheItem is [id, last_edited_time, content_hash, *)
(* children]; last_edited_time '' is 0; a missing content_hash is NoHash.  *)
(* pages is a function from the top-level keys to items.                   *)
(***************************************************************************)
NoHash == [ver |-> -1, kids |-> <<>>]
EmptyPages == [k \in {} |-> 0]

Item(id, let, hash, children) ==
    [id |-> id, last_edited_time |-> let, content_hash |-> hash, children |-> children]

PutPage(pages, key, item) ==
    [k \in DOMAIN pages \cup {key} |-> IF k = key THEN item ELSE pages[k]]

\* the ids of the direct children only
collectDirectOnly(children) ==
    { children[i].id : i \in 1..Len(children) } \ {Undef}

RECURSIVE collectChildPageIds(_)
collectChildPageIds(children) ==
    UNION { (IF children[i].id # Undef THEN {children[i].id} ELSE {})
            \cup collectChildPageIds(children[i].children) : i \in 1..Len(children) }

\* a collection that stops at the direct children of the top-level records
ChildPageIdsOfDirect(pages) == UNION { collectDirectOnly(pages[k].children) : k \in DOMAIN pages }

\* the ids that cleanupDuplicatePages collects over all top-level records
ChildPageIdsOf(pages) == UNION { collectChildPageIds(pages[k].children) : k \in DOMAIN pages }

cleanupDuplicatePages(pages) ==
    [k \in DOMAIN pages \ ChildPageIdsOf(pages) |-> pages[k]]

\* initCacheMap's compatibility pass over a parsed file: a top-level item
\* without children gets [], legacy map-shaped children become an array of
\* items without hash and children, and a top-level item without id gets its key.
MigrateItem(key, raw) ==
    Item(IF raw.id = Undef THEN key ELSE raw.id,
         raw.last_edited_time,
         raw.content_hash,
         IF raw.shape = "none" THEN <<>>
         ELSE IF raw.shape = "legacy"
              THEN [i \in 1..Len(raw.children) |->
                       Item(raw.children[i].id, raw.children[i].last_edited_time, NoHash, <<>>)]
              ELSE raw.children)

MigratePages(rawPages) == [k \in DOMAIN rawPages |-> MigrateItem(k, rawPages[k])]

\* A file written by saveCacheMap: every top-level item has an id and an array.
AsRaw(pages) ==
    [k \in DOMAIN pages |->
        [id |-> pages[k].id, last_edited_time |-> pages[k].last_edited_time,
         content_hash |-> pages[k].content_hash, shape |-> "array",
         children |-> pages[k].children]]

LoadPages(rawPages) == cleanupDuplicatePages(MigratePages(rawPages))

RECURSIVE findChildPageById(_, _)
findChildPageById(children, childId) ==
    LET RECURSIVE scan(_)
        scan(i) ==
            IF i > Len(children) THEN <<>>
            ELSE IF children[i].id = childId THEN <<children[i]>>
            ELSE LET found == findChildPageById(children[i].children, childId)
                 IN  IF found # <<>> THEN found ELSE scan(i + 1)
    IN  scan(1)

\* <<item>> when found, <<>> for null
findChildInParentChain(pages, childId, parentPageIds) ==
    IF Len(parentPageIds) = 0 THEN <<>>
    ELSE IF formatId(parentPageIds[1]) \notin DOMAIN pages THEN <<>>
    ELSE LET RECURSIVE walk(_, _)
             walk(parentPage, i) ==
                 IF i > Len(parentPageIds)
                 THEN findChildPageById(parentPage.children, childId)
                 ELSE LET nextParent == findChildPageById(parentPage.children,
                                                          formatId(parentPageIds[i]))
                      IN  IF nextParent = <<>> THEN <<>> ELSE walk(nextParent[1], i + 1)
         IN  walk(pages[formatId(parentPageIds[1])], 2)

\* a lookup that never finds the child
findIndexNever(children, id) == 0

\* Array.prototype.findIndex over the direct children: 0 for -1
findIndex(children, id) ==
    LET hits == { i \in 1..Len(children) : children[i].id = id }
    IN  IF hits = {} THEN 0 ELSE CHOOSE i \in hits : \A j \in hits : i <= j

RECURSIVE UpsertBelow(_, _, _, _, _)
UpsertBelow(parent, restChain, childId, lastEditedTime, contentHash) ==
    IF restChain = <<>>
    THEN LET idx == findIndex(parent.children, childId)
         IN  IF idx > 0
             THEN [parent EXCEPT !.children[idx].last_edited_time = lastEditedTime,
                                 !.children[idx].content_hash =
                                     IF contentHash # NoHash THEN contentHash ELSE @]
             ELSE [parent EXCEPT !.children =
                       Append(@, Item(childId, lastEditedTime, contentHash, <<>>))]
    ELSE LET nextId == formatId(Head(restChain))
             idx == findIndex(parent.children, nextId)
             kids == IF idx > 0 THEN parent.children
                     ELSE Append(parent.children, Item(nextId, 0, NoHash, <<>>))
             at == IF idx > 0 THEN idx ELSE Len(kids)
         IN  [parent EXCEPT !.children =
                 [kids EXCEPT ![at] = UpsertBelow(kids[at], Tail(restChain), childId,
                                                  lastEditedTime, contentHash)]]

\* an upsert that starts from a new record of the top ancestor
updateChildInNewParent(pages, childId, lastEditedTime, parentPageIds, contentHash) ==
    IF Len(parentPageIds) = 0 THEN pages
    ELSE PutPage(pages, formatId(parentPageIds[1]),
                 UpsertBelow(Item(formatId(parentPageIds[1]), 0, NoHash, <<>>),
                             Tail(parentPageIds), childId, lastEditedTime, contentHash))

\* updateChildInParentChain (lines 471-533)
updateChildInParentChain(pages, childId, lastEditedTime, parentPageIds, contentHash) ==
    IF Len(parentPageIds) = 0 THEN pages
    ELSE LET topParentId == formatId(parentPageIds[1])
             top == IF topParentId \in DOMAIN pages THEN pages[topParentId]
                    ELSE Item(topParentId, 0, NoHash, <<>>)
         IN  PutPage(pages, topParentId,
                     UpsertBelow(top, Tail(parentPageIds), childId, lastEditedTime, contentHash))

\* an updateCache that stores no content hash
updateCacheMapNoHash(pages, pageId, lastEditedTime, contentHash, parentPageIds) ==
    IF Len(parentPageIds) > 0
    THEN updateChildInParentChain(pages, formatId(pageId), lastEditedTime, parentPageIds, NoHash)
    ELSE PutPage(pages, formatId(pageId),
                 Item(formatId(pageId), lastEditedTime, NoHash,
                      IF formatId(pageId) \in DOMAIN pages
                      THEN pages[formatId(pageId)].children ELSE <<>>))

\* the in-memory part of updateCache (lines 426-457)
updateCacheMap(pages, pageId, lastEditedTime, contentHash, parentPageIds) ==
    LET formattedPageId == formatId(pageId)
    IN  IF Len(parentPageIds) > 0
        THEN updateChildInParentChain(pages, formattedPageId, lastEditedTime,
                                      parentPageIds, contentHash)
        ELSE IF formattedPageId \notin DOMAIN pages
             THEN PutPage(pages, formattedPageId,
                          Item(formattedPageId, lastEditedTime, contentHash, <<>>))
             ELSE [pages EXCEPT ![formattedPageId].last_edited_time = lastEditedTime,
                                ![formattedPageId].content_hash = contentHash]

(***************************************************************************)
(* The remote tree.  A block is [id, type, has_children, children]; the    *)
(* children of a child_page block are the blocks of another page and play  *)
(* no part in the coordinator (extractImageUrls, processChildPages and     *)
(* processNestedChildPages all skip child_page blocks), so they are left   *)
(* out of the block.                                                       *)
(***************************************************************************)
Shapes == {"single", "chain", "nested"}

\* the trees of the runs with failures: fan is P with two images and four
\* direct child pages, roots is three root pages without content
FaultShapes == {"fan", "nested", "roots"}

ChildPageBlock(id) == [id |-> id, type |-> "child_page", has_children |-> TRUE, children |-> <<>>]
ImageBlock(id) == [id |-> id, type |-> "image", has_children |-> FALSE, children |-> <<>>]
ToggleBlock(id, children) ==
    [id |-> id, type |-> "toggle", has_children |-> TRUE, children |-> children]

\* single: P alone.  chain: P > C > G, image R in P and in C.
\* nested: P holds a toggle with child page N, then child page C; image R in N and in C.
\* deep: P holds a toggle with the child pages N and D; image R2 in N and in D.
BlocksOf(sh, page) ==
    IF sh = "chain" /\ page = "P" THEN <<ImageBlock("R"), ChildPageBlock("C")>>
    ELSE IF sh = "chain" /\ page = "C" THEN <<ChildPageBlock("G"), ImageBlock("R")>>
    ELSE IF sh = "nested" /\ page = "P"
         THEN <<ToggleBlock("T", <<ChildPageBlock("N")>>), ChildPageBlock("C")>>
    ELSE IF sh = "nested" /\ page \in {"N", "C"} THEN <<ImageBlock("R")>>
    ELSE IF sh = "fan" /\ page = "P"
         THEN <<ImageBlock("R"), ImageBlock("R2"), ChildPageBlock("C"), ChildPageBlock("G"),
                ChildPageBlock("N"), ChildPageBlock("D")>>
    ELSE IF sh = "deep" /\ page = "P"
         THEN <<ToggleBlock("T", <<ChildPageBlock("N"), ChildPageBlock("D")>>)>>
    ELSE IF sh = "deep" /\ page \in {"N", "D"} THEN <<ImageBlock("R2")>>
    ELSE <<>>

PagesOf(sh) ==
    IF sh = "chain" THEN {"P", "C", "G"}
    ELSE IF sh = "nested" THEN {"P", "N", "C"}
    ELSE IF sh = "fan" THEN {"P", "C", "G", "N", "D"}
    ELSE IF sh = "roots" THEN {"P", "C", "G"}
    ELSE IF sh = "deep" THEN {"P", "N", "D"}
    ELSE {"P"}

\* the root pages of a tree, as config.pages lists them
RootsOf(sh) == IF sh = "roots" THEN <<"P", "C", "G">> ELSE <<"P">>

Resources == {"R", "R2"}

isChildPage(block) == block.type = "child_page"

\* The page ids under a page in document order (a pre-order walk of the tree)
RECURSIVE BlockPageOrder(_, _)
RECURSIVE PagePreOrder(_, _)
BlockPageOrder(sh, blocks) ==
    IF blocks = <<>> THEN <<>>
    ELSE (IF isChildPage(Head(blocks)) THEN PagePreOrder(sh, Head(blocks).id)
          ELSE BlockPageOrder(sh, Head(blocks).children))
         \o BlockPageOrder(sh, Tail(blocks))
PagePreOrder(sh, page) == <<page>> \o BlockPageOrder(sh, BlocksOf(sh, page))

\* the chain of ancestors of a page below P
ChainOf(sh, page) ==
    IF page = "P" \/ sh = "roots" THEN <<>>
    ELSE IF sh = "chain" /\ page = "G" THEN <<"P", "C">>
    ELSE <<"P">>

RECURSIVE ImagesIn(_)
ImagesIn(blocks) ==
    IF blocks = <<>> THEN {}
    ELSE (IF isChildPage(Head(blocks)) THEN {}
          ELSE (IF Head(blocks).type = "image" THEN {Head(blocks).id} ELSE {})
               \cup ImagesIn(Head(blocks).children))
         \cup ImagesIn(Tail(blocks))

(***************************************************************************)
(* NotionDataFetcher: fetchPageData gives the metadata, fetchFullPageData  *)
(* the metadata and the block tree.  A snapshot is [id, let, ver]; its     *)
(* block tree is BlocksOf(shape, id).                                      *)
(***************************************************************************)
fetchPageData(pageId) == remote[formatId(pageId)]

\* A snapshot is kept as [id, let, ver, lost]: lost holds the blocks whose
\* child listing failed inside processChildren, where the error is logged and
\* the block is pushed without its children (lines 660-664).
fetchFullPageData(pageId) ==
    [id |-> formatId(pageId), let |-> remote[formatId(pageId)].let,
     ver |-> remote[formatId(pageId)].ver, lost |-> {}]

NoSnap == [id |-> Undef, let |-> 0, ver |-> 0, lost |-> {}]

\* the block tree without the children of the blocks whose listing failed
RECURSIVE Truncated(_, _)
Truncated(blocks, lost) ==
    [i \in 1..Len(blocks) |->
        [blocks[i] EXCEPT !.children = IF blocks[i].id \in lost THEN <<>>
                                       ELSE Truncated(@, lost)]]

\* the block tree a snapshot holds
FetchedBlocks(snapshot) == Truncated(BlocksOf(shape, snapshot.id), snapshot.lost)

\* The PageObject of a snapshot: ver stands for the page fields that an edit of
\* the content changes.
PageObjectOf(snapshot) ==
    LET blocks == FetchedBlocks(snapshot)
    IN  [id |-> snapshot.id, last_edited_time |-> snapshot.let, created_time |-> 1,
         title |-> 0, icon |-> 0, cover |-> 0, properties |-> snapshot.ver,
         children |-> [i \in 1..Len(blocks) |->
                          [id |-> blocks[i].id,
                           type |-> blocks[i].type,
                           has_children |-> blocks[i].has_children,
                           last_edited_time |-> snapshot.let]]]

\* obj[key] of JavaScript: a property the object lacks reads as undefined
Get(obj, key) == IF key \in DOMAIN obj THEN obj[key] ELSE Undef

\* the (id, type, has_children) entries of the children; a page object
\* without a children array gives [] (lines 398-405)
childEntries(pageData) ==
    IF "children" \in DOMAIN pageData
    THEN [i \in 1..Len(pageData.children) |->
             [id |-> Get(pageData.children[i], "id"),
              type |-> Get(pageData.children[i], "type"),
              has_children |-> Get(pageData.children[i], "has_children")]]
    ELSE <<>>

\* a content object that also carries the page's last_edited_time
contentObjectWithTime(pageData) ==
    [title |-> Get(pageData, "title"), icon |-> Get(pageData, "icon"),
     cover |-> Get(pageData, "cover"), properties |-> Get(pageData, "properties"),
     last_edited_time |-> Get(pageData, "last_edited_time"),
     children |-> childEntries(pageData)]

\* the object that calculateContentHash serialises (lines 392-406)
contentObject(pageData) ==
    [title |-> Get(pageData, "title"), icon |-> Get(pageData, "icon"),
     cover |-> Get(pageData, "cover"), properties |-> Get(pageData, "properties"),
     children |-> childEntries(pageData)]

\* md5 of JSON.stringify(contentObject): the object stands for its digest.
\* JSON.stringify leaves out the properties whose value is undefined, and the
\* content object always has its five properties, so two content objects have
\* the same text exactly when they are equal.
calculateContentHash(pageData) == contentObject(pageData)

(***************************************************************************)
(* Files.  savePageData writes outputDir/<chain>/<id>/<id>.json, the cache *)
(* service reads cacheDir/<chain>/<id>/<id>.json with cacheDir =           *)
(* outputDir/.cache.  A path is the sequence of directories below          *)
(* outputDir.                                                              *)
(***************************************************************************)
NoFiles == [q \in {} |-> 0]

SavePath(pageId, parentPageIds) == FormatChain(parentPageIds) \o <<formatId(pageId)>>

\* a snapshot lookup in the directory the saver writes to
CachePathInOutputDir(pageId, parentPageIds) == SavePath(pageId, parentPageIds)

CachePath(pageId, parentPageIds) ==
    <<".cache">> \o FormatChain(parentPageIds) \o <<formatId(pageId)>>

\* <<snapshot>> when the file can be read, <<>> for null
getCachedData(pageId, parentPageIds) ==
    IF CachePath(pageId, parentPageIds) \in DOMAIN files
    THEN <<files[CachePath(pageId, parentPageIds)]>>
    ELSE <<>>

savePageData(fs, pageId, data, parentPageIds) ==
    [q \in DOMAIN fs \cup {SavePath(pageId, parentPageIds)} |->
        IF q = SavePath(pageId, parentPageIds) THEN data ELSE fs[q]]

(***************************************************************************)
(* Change detection                                                        *)
(***************************************************************************)
NoUpdated == [k \in {} |-> 0]

getUpdatedChildPages(upd, parentId) ==
    IF formatId(parentId) \in DOMAIN upd THEN upd[formatId(parentId)] ELSE <<>>

\* a clear that leaves the list of the parent in place
keepUpdatedChildPages(upd, parentId) == upd

clearUpdatedChildPages(upd, parentId) ==
    [k \in DOMAIN upd \ {formatId(parentId)} |-> upd[k]]

SetUpdated(upd, key, ids) ==
    [k \in DOMAIN upd \cup {key} |-> IF k = key THEN ids ELSE upd[k]]

\* an includes that never finds the element
IncludesNever(seq, x) == FALSE

\* Array.prototype.includes
Includes(seq, x) == \E i \in 1..Len(seq) : seq[i] = x

\* checkChildrenUpdates: [ids, upd] = the returned id list and updatedChildPages afterwards.
\* Without a fetcher this.fetcher?.fetchPageData(...) is undefined and every child is skipped.
RECURSIVE checkChildrenUpdates(_, _, _)
checkChildrenUpdates(parentId, children, upd0) ==
    LET RECURSIVE loop(_, _, _)
        loop(i, ids, upd) ==
            IF i > Len(children) THEN [ids |-> ids, upd |-> upd]
            ELSE LET child == children[i]
                 IN  IF child.id = Undef \/ ~cfg.hasFetcher THEN loop(i + 1, ids, upd)
                     ELSE LET ids1 == IF fetchPageData(child.id).let # child.last_edited_time
                                      THEN Append(ids, child.id) ELSE ids
                              nested == checkChildrenUpdates(child.id, child.children, upd)
                          IN  IF Len(nested.ids) > 0
                              THEN loop(i + 1,
                                        IF Includes(ids1, child.id) THEN ids1
                                        ELSE Append(ids1, child.id),
                                        SetUpdated(nested.upd, child.id, nested.ids))
                              ELSE loop(i + 1, ids1, nested.upd)
    IN  loop(1, <<>>, upd0)

\* a comparison that never finds the digests equal
HashNeverUnchanged(item, cachedData) == FALSE

\* the hash comparison of shouldUpdate (lines 214-226 and 261-287)
HashUnchanged(item, cachedData) ==
    /\ item.content_hash # NoHash
    /\ cachedData # <<>>
    /\ item.content_hash = calculateContentHash(PageObjectOf(cachedData[1]))

\* a timestamp comparison that never finds the times equal
NeverSameTimestamp(item, lastEditedTime) == FALSE

SameTimestamp(item, lastEditedTime) == item.last_edited_time = lastEditedTime

\* shouldUpdate after the reload (lines 189-297) on this.cacheMap.pages = pages:
\* [needs, pending, upd] = the result, pendingUpdates and updatedChildPages afterwards.
shouldUpdate(pages, pending, upd, pageId, lastEditedTime, parentPageIds) ==
    LET formattedPageId == formatId(pageId)
        full == [needs |-> TRUE, pending |-> pending \cup {formattedPageId}, upd |-> upd]
    IN  IF formattedPageId \in pending
        THEN [needs |-> TRUE, pending |-> pending, upd |-> upd]
        ELSE IF Len(parentPageIds) # 0
        THEN LET childInfo == findChildInParentChain(pages, formattedPageId, parentPageIds)
             IN  IF childInfo = <<>> THEN full
                 ELSE IF SameTimestamp(childInfo[1], lastEditedTime)
                      THEN [needs |-> FALSE, pending |-> pending, upd |-> upd]
                 ELSE IF HashUnchanged(childInfo[1], getCachedData(pageId, parentPageIds))
                      THEN [needs |-> FALSE, pending |-> pending, upd |-> upd]
                 ELSE full
        ELSE IF formattedPageId \in DOMAIN pages
        THEN LET cachedItem == pages[formattedPageId]
                 cc == checkChildrenUpdates(formattedPageId, cachedItem.children, upd)
                 kept == [needs |-> FALSE, pending |-> pending,
                          upd |-> IF Len(cc.ids) > 0
                                  THEN SetUpdated(cc.upd, formattedPageId, cc.ids)
                                  ELSE cc.upd]
             IN  IF SameTimestamp(cachedItem, lastEditedTime) THEN kept
                 ELSE IF HashUnchanged(cachedItem, getCachedData(pageId, <<>>)) THEN kept
                 ELSE full
        ELSE full

\* an updateCache that leaves pendingUpdates alone
pendingKept(pending, pageId) == pending

\* updateCache, line 457: this.pendingUpdates.delete(formattedPageId)
pendingAfterUpdate(pending, pageId) == pending \ {formatId(pageId)}

(***************************************************************************)
(* Resource ownership                                                      *)
(***************************************************************************)
NoOwners == [r \in {} |-> 0]

\* a record of the owner that replaces the one already there
recordOwnerAlways(map, blockId, pageId) ==
    [r \in DOMAIN map \cup {blockId} |-> IF r = blockId THEN pageId ELSE map[r]]

\* lines 77-79: if (!this.resourcePageMap.has(block.id)) set(block.id, pageId)
recordOwner(map, blockId, pageId) ==
    IF blockId \in DOMAIN map THEN map
    ELSE [r \in DOMAIN map \cup {blockId} |-> IF r = blockId THEN pageId ELSE map[r]]

\* [images, map] = the returned block ids and resourcePageMap afterwards
RECURSIVE extractImageUrls(_, _, _, _)
extractImageUrls(blocks, pageId, recordOnly, map0) ==
    LET RECURSIVE loop(_, _, _)
        loop(i, images, map) ==
            IF i > Len(blocks) THEN [images |-> images, map |-> map]
            ELSE LET block == blocks[i]
                 IN  IF isChildPage(block) THEN loop(i + 1, images, map)
                     ELSE LET map1 == IF block.type = "image"
                                      THEN recordOwner(map, block.id, pageId) ELSE map
                              own == IF block.type = "image" /\ ~recordOnly
                                        /\ map1[block.id] = pageId
                                     THEN <<block.id>> ELSE <<>>
                              sub == extractImageUrls(block.children, pageId, recordOnly, map1)
                          IN  loop(i + 1,
                                   images \o own \o (IF recordOnly THEN <<>> ELSE sub.images),
                                   sub.map)
    IN  loop(1, <<>>, map0)

DirectChildPages(blocks) == SelectSeq(blocks, isChildPage)

\* [map, fetched] = resourcePageMap afterwards and the pages fetched in full on the way
RECURSIVE buildResourceMap(_, _)
buildResourceMap(pageId, map0) ==
    LET own == extractImageUrls(BlocksOf(shape, formatId(pageId)), pageId, TRUE, map0).map
        childPages == DirectChildPages(BlocksOf(shape, formatId(pageId)))
        RECURSIVE loop(_, _, _)
        loop(i, map, fetched) ==
            IF i > Len(childPages) THEN [map |-> map, fetched |-> fetched]
            ELSE LET sub == buildResourceMap(childPages[i].id, map)
                 IN  loop(i + 1, sub.map, fetched \o <<childPages[i].id>> \o sub.fetched)
    IN  loop(1, own, <<>>)

\* processChildPages, lines 366-387: direct child pages and those one block deep
RECURSIVE CollectChildPages(_)
CollectChildPages(blocks) ==
    IF blocks = <<>> THEN <<>>
    ELSE LET block == Head(blocks)
         IN  (IF isChildPage(block) THEN <<block.id>>
              ELSE IF block.has_children
                   THEN [i \in 1..Len(DirectChildPages(block.children)) |->
                            DirectChildPages(block.children)[i].id]
                   ELSE <<>>)
             \o CollectChildPages(Tail(blocks))

\* the processPage calls of processNestedChildPages, in call order
RECURSIVE NestedChildPages(_)
NestedChildPages(blocks) ==
    IF blocks = <<>> THEN <<>>
    ELSE LET block == Head(blocks)
         IN  (IF isChildPage(block) THEN <<>>
              ELSE [i \in 1..Len(DirectChildPages(block.children)) |->
                       DirectChildPages(block.children)[i].id]
                   \o NestedChildPages(block.children))
             \o NestedChildPages(Tail(blocks))

(***************************************************************************)
(* The run.  A task is one async call: processPage (kind "page") or a      *)
(* shouldUpdate started by batchShouldUpdate (kind "should").  pc is the   *)
(* await the call is suspended at.                                         *)
(***************************************************************************)
BatchConcurrency == 3

NoFileContent == [exists |-> FALSE, pages |-> EmptyPages]

Task(kind, pageId, parentPageIds, isRoot, parent, pc, lastEditedTime) ==
    [kind |-> kind, page |-> pageId, chain |-> parentPageIds, isRoot |-> isRoot,
     parent |-> parent, pc |-> pc, ret |-> "su", t |-> lastEditedTime, needs |-> FALSE,
     content |-> NoFileContent, buf |-> EmptyPages, full |-> NoSnap,
     todo |-> <<>>, ids |-> <<>>, out |-> <<>>, kids |-> {},
     hit |-> FALSE, flagged |-> <<>>, fetched |-> FALSE, saved |-> FALSE, cached |-> FALSE,
     same |-> FALSE, batch |-> 0, batches |-> 0, results |-> <<>>, failing |-> {},
     failedAt |-> "", orphan |-> ""]

\* a processPage that asks the cache service whatever enableCache says
PageTaskCacheAlways(pageId, parentPageIds, isRoot, parent, enableCache) ==
    Task("page", pageId, parentPageIds, isRoot, parent, "icRead", 0)

\* processPage is called: it awaits the metadata, and with the cache
\* enabled the reload of shouldUpdate after it
PageTask(pageId, parentPageIds, isRoot, parent, enableCache) ==
    Task("page", pageId, parentPageIds, isRoot, parent,
         IF enableCache THEN "icRead" ELSE "fetchFull", 0)

Finished(i) == tasks[i].pc = "done"

\* a dispatcher that goes on without waiting for the calls it started
KidsStarted(i) == TRUE

KidsFinished(i) == \A k \in tasks[i].kids : Finished(k)

\* the promise of the call is settled: it returned or it threw
Settled(i) == tasks[i].pc \in {"done", "failed"}

\* An error is never caught by the caller
CaughtNever(ts, p) == FALSE

\* The caller catches the error of the call: the loops of backupCommand over
\* the root pages do (backup.ts lines 218-222 and 264-268), processPage and
\* the dispatchers of the coordinator log and rethrow.
Caught(ts, p) == ts[p].kind = "command"

\* a caller that never sees the error of the call it waits for
AwaitedNever(ts, p, i) == FALSE

\* Call p is suspended in an await of call i (directly, in a for loop, or through
\* Promise.all, which rejects with the first rejection) and does not catch
Awaited(ts, p, i) ==
    /\ p # 0
    /\ ~Caught(ts, p)
    /\ ts[p].pc \in {"chunkWait", "nestedWait", "partialWait", "rootWait"}
    /\ i \in ts[p].kids

\* processPage throws (lines 233-236): the call is rejected, and so is every
\* caller up the chain of awaits, in the same turn of the event loop
RECURSIVE Thrown(_, _, _)
Thrown(ts, i, at) ==
    LET failed == [ts EXCEPT ![i].pc = "failed", ![i].failedAt = at]
    IN  IF Awaited(ts, ts[i].parent, i) THEN Thrown(failed, ts[i].parent, "child")
        ELSE failed

\* the calls that are still running when their caller is rejected keep the
\* step they were suspended at in orphan
WithOrphans(ts) ==
    [j \in 1..Len(ts) |->
        IF /\ ts[j].parent # 0
           /\ ts[ts[j].parent].pc = "failed"
           /\ ts[j].pc \notin {"done", "failed"}
           /\ ts[j].orphan = ""
        THEN [ts[j] EXCEPT !.orphan = ts[j].pc]
        ELSE ts[j]]

Rejected(ts, i, at) == WithOrphans(Thrown(ts, i, at))

ZeroStats ==
    [fullFetch |-> [q \in PageIds |-> 0], saves |-> [q \in PageIds |-> 0],
     cacheWrites |-> [q \in PageIds |-> 0],
     downloads |-> [rq \in Resources \X PageIds |-> 0]]

RECURSIVE CountFetches(_, _)
CountFetches(counts, fetched) ==
    IF fetched = <<>> THEN counts
    ELSE CountFetches([counts EXCEPT ![formatId(Head(fetched))] = @ + 1], Tail(fetched))

RECURSIVE CountDownloads(_, _, _)
CountDownloads(counts, images, pageId) ==
    IF images = <<>> THEN counts
    ELSE CountDownloads([counts EXCEPT ![<<Head(images), formatId(pageId)>>] = @ + 1],
                        Tail(images), pageId)

NoConfig == [root |-> "P", enableCache |-> FALSE, recursive |-> FALSE,
             includeImages |-> FALSE, hasFetcher |-> FALSE]

\* the previous run, as far as the next one depends on it
NoRun == [fresh |-> FALSE, root |-> "P"]

\* The option sets of a run: the defaults of the command (cache, recursive,
\* images, no fetcher handed to the cache service, the root spelled without
\* hyphens), a cache service that was given the fetcher, the cache switched
\* off, and a run of the root page alone without images.
RunConfigs ==
    { [root |-> "p", enableCache |-> TRUE, recursive |-> TRUE, includeImages |-> TRUE,
       hasFetcher |-> FALSE],
      [root |-> "P", enableCache |-> TRUE, recursive |-> TRUE, includeImages |-> TRUE,
       hasFetcher |-> TRUE],
      [root |-> "P", enableCache |-> FALSE, recursive |-> TRUE, includeImages |-> TRUE,
       hasFetcher |-> FALSE],
      [root |-> "P", enableCache |-> TRUE, recursive |-> FALSE, includeImages |-> FALSE,
       hasFetcher |-> FALSE] }

\* the runs of a tree: the tree with a child page nested in a block is backed
\* up recursively and with the cache, the other trees with every configuration
ConfigsOf(sh) ==
    IF sh = "nested" THEN { c \in RunConfigs : c.recursive /\ c.enableCache } ELSE RunConfigs

Init ==
    /\ shape \in Shapes
    /\ remote = [q \in PageIds |-> [let |-> 1, ver |-> 0]]
    /\ files = NoFiles
    /\ cacheDisk = NoFileContent
    /\ cacheMem = EmptyPages
    /\ pendingUpdates = {}
    /\ updatedChildPages = NoUpdated
    /\ resourcePageMap = NoOwners
    /\ cfg = NoConfig
    /\ tasks = <<>>
    /\ phase = "idle"
    /\ stats = ZeroStats
    /\ hist = [run |-> 0, cache0 |-> EmptyPages, files0 |-> {}, fresh |-> FALSE,
               edited |-> FALSE, edits |-> 0, last |-> NoRun, allCached |-> TRUE]

\* The remote tree is edited between two runs: the page gets a later
\* last_edited_time, with or without a change of the hashed content.
\* the last_edited_time of an edit made after run number hist.run: times are
\* the numbers of the gaps between the runs, the tree was created at time 1
EditTime == hist.run + 1

\* a page is edited remotely between two runs, with or without a change of
\* the content that calculateContentHash looks at
Edit(page, changeContent) ==
    /\ phase = "idle"
    /\ hist.run >= 1
    /\ hist.run < MaxRuns
    /\ page \in PagesOf(shape)
    /\ hist.edits < MaxEdits
    /\ remote[page].let < EditTime
    /\ remote' = [remote EXCEPT ![page] =
                     [let |-> EditTime, ver |-> IF changeContent THEN 1 - @.ver ELSE @.ver]]
    /\ hist' = [hist EXCEPT !.edited = TRUE, !.edits = @ + 1]
    /\ UNCHANGED <<shape, files, cacheDisk, cacheMem, pendingUpdates, updatedChildPages,
                   resourcePageMap, cfg, tasks, phase, stats>>

\* backupCommand for one configured root page: new NotionCacheService (whose
\* constructor loads or creates the cache map), new NotionPageCoordinator,
\* coordinator.processPage({ pageId, isRoot: true }).
StartRun(config) ==
    /\ phase = "idle"
    /\ hist.run < MaxRuns
    /\ cfg' = config
    /\ cacheMem' = IF cacheDisk.exists THEN LoadPages(cacheDisk.pages) ELSE EmptyPages
    /\ cacheDisk' = IF cacheDisk.exists THEN cacheDisk
                    ELSE [exists |-> TRUE, pages |-> AsRaw(EmptyPages)]
    /\ pendingUpdates' = {}
    /\ updatedChildPages' = NoUpdated
    /\ resourcePageMap' = NoOwners
    /\ tasks' = <<PageTask(config.root, <<>>, TRUE, 0, config.enableCache)>>
    /\ phase' = "running"
    /\ stats' = ZeroStats
    /\ hist' = [hist EXCEPT !.run = @ + 1,
                            !.cache0 = IF cacheDisk.exists THEN LoadPages(cacheDisk.pages)
                                       ELSE EmptyPages,
                            !.files0 = DOMAIN files,
                            !.fresh = (~cacheDisk.exists \/ DOMAIN cacheDisk.pages = {}),
                            !.allCached = @ /\ config.enableCache /\ config.recursive]
    /\ UNCHANGED <<shape, remote, files>>

\* Step 1 of processPage and initCacheMap, lines 54-57: the metadata has
\* arrived and the cache-map file is read
InitCacheMapRead(i) ==
    /\ phase = "running"
    /\ tasks[i].pc = "icRead"
    /\ tasks' = [tasks EXCEPT ![i].content = cacheDisk,
                              ![i].t = IF tasks[i].kind = "page" /\ tasks[i].ret = "su"
                                       THEN fetchPageData(tasks[i].page).let ELSE @,
                              ![i].pc = "icAssign"]
    /\ UNCHANGED <<shape, remote, files, cacheDisk, cacheMem, pendingUpdates,
                   updatedChildPages, resourcePageMap, cfg, phase, stats, hist>>

\* initCacheMap, lines 56-95, once the read has returned: the parsed file
\* replaces this.cacheMap; when there was no file this.cacheMap is kept and saved.
Reloaded(i) ==
    IF tasks[i].content.exists THEN LoadPages(tasks[i].content.pages) ELSE cacheMem

DiskAfterReload(i) ==
    IF tasks[i].content.exists THEN cacheDisk
    ELSE [exists |-> TRUE, pages |-> AsRaw(cacheMem)]

\* The tasks a caller starts, appended to the task list; the caller waits for them.
Spawned(ts, new) == ts \o new
NewTids(ts, new) == (Len(ts) + 1)..(Len(ts) + Len(new))

ChildChain(i) == tasks[i].chain \o <<tasks[i].page>>

PageTasksFor(i, ids) ==
    [k \in 1..Len(ids) |-> PageTask(ids[k], ChildChain(i), FALSE, i, cfg.enableCache)]

\* the calls of one Promise.all, numbered by the batch they belong to
InBatch(new, b) == [k \in 1..Len(new) |-> [new[k] EXCEPT !.batch = b]]

Min(a, b) == IF a < b THEN a ELSE b

chunkHead(ids, size) == SubSeq(ids, 1, Min(size, Len(ids)))
chunkRest(ids, size) == SubSeq(ids, Min(size, Len(ids)) + 1, Len(ids))

\* processNestedChildPages from its first or next processPage call on:
\* the task list after task i has gone on with the calls in todo
GoNested(ts, i, todo) ==
    IF todo = <<>>
    THEN [ts EXCEPT ![i].pc = "done", ![i].kids = {}, ![i].todo = <<>>]
    ELSE Spawned([ts EXCEPT ![i].pc = "nestedWait", ![i].todo = Tail(todo),
                            ![i].kids = NewTids(ts, <<1>>)],
                 PageTasksFor(i, <<Head(todo)>>))

\* processQueue of batchProcessPages: the next chunk of ids is started, and
\* after the last chunk processChildPages goes on with the nested child pages
GoChunk(ts, i, ids) ==
    IF ids = <<>>
    THEN GoNested([ts EXCEPT ![i].ids = <<>>, ![i].out = <<>>], i,
                  NestedChildPages(FetchedBlocks(ts[i].full)))
    ELSE Spawned([ts EXCEPT ![i].pc = "chunkWait",
                            ![i].ids = chunkRest(ids, BatchConcurrency),
                            ![i].out = <<>>,
                            ![i].batches = @ + 1,
                            ![i].kids = NewTids(ts, chunkHead(ids, BatchConcurrency))],
                 InBatch(PageTasksFor(i, chunkHead(ids, BatchConcurrency)),
                         ts[i].batches + 1))

\* processUpdatedChildPages: one flagged child after the other
GoPartial(ts, i, todo) ==
    IF todo = <<>>
    THEN [ts EXCEPT ![i].pc = "done", ![i].kids = {}, ![i].todo = <<>>]
    ELSE Spawned([ts EXCEPT ![i].pc = "partialWait", ![i].todo = Tail(todo),
                            ![i].kids = NewTids(ts, <<1>>)],
                 PageTasksFor(i, <<Head(todo)>>))

\* step 3: fetchFullPageData, and for the root the ownership pre-pass (lines 186-193)
PrePass(i) == tasks[i].isRoot /\ cfg.includeImages

FullFetched(ts, i, lost) ==
    [ts EXCEPT ![i].full = [fetchFullPageData(ts[i].page) EXCEPT !.lost = lost],
               ![i].fetched = TRUE, ![i].content = NoFileContent, ![i].pc = "save"]

\* What a fetchFullPageData call meets: throws when the metadata or the listing
\* of the page's own blocks fails (lines 646-647, 672-675), lost are the nested
\* blocks whose listing fails.
NoFault == [throws |-> FALSE, lost |-> {}]

\* the blocks of a page whose children the coordinator reads from the fetched
\* tree (SpecListing has the listing itself: it also descends into child_page
\* blocks, whose children no step of the coordinator looks at)
RECURSIVE ListedBlocks(_)
ListedBlocks(blocks) ==
    UNION { IF isChildPage(blocks[k]) \/ ~blocks[k].has_children THEN {}
            ELSE {blocks[k].id} \cup ListedBlocks(blocks[k].children) : k \in 1..Len(blocks) }

FetchFaults(pageId) ==
    { [throws |-> TRUE, lost |-> {}] }
    \cup { [throws |-> FALSE, lost |-> l] :
              l \in (SUBSET ListedBlocks(BlocksOf(shape, formatId(pageId)))) \ {{}} }

MapAfterFullFetch(i) ==
    IF PrePass(i) THEN buildResourceMap(tasks[i].page, resourcePageMap).map
    ELSE resourcePageMap

StatsAfterFullFetch(i) ==
    [stats EXCEPT !.fullFetch =
        CountFetches(@, <<tasks[i].page>> \o
                        (IF PrePass(i)
                         THEN buildResourceMap(tasks[i].page, resourcePageMap).fetched
                         ELSE <<>>))]

\* the record of the page that shouldUpdate compares with: <<item>> or <<>>
LookedUp(pages, pageId, parentPageIds) ==
    IF Len(parentPageIds) # 0
    THEN findChildInParentChain(pages, formatId(pageId), parentPageIds)
    ELSE IF formatId(pageId) \in DOMAIN pages THEN <<pages[formatId(pageId)]>> ELSE <<>>

\* the remote last_edited_time of step 1 equals the one of the page's cache record
SameAsCached(pages, pageId, lastEditedTime, parentPageIds) ==
    /\ LookedUp(pages, pageId, parentPageIds) # <<>>
    /\ LookedUp(pages, pageId, parentPageIds)[1].last_edited_time = lastEditedTime

\* step 2 of processPage: shouldUpdate decides after its reload, and processPage
\* goes on to the cache hit, the partial update or the full update (lines 143-193);
\* outcome is what the full fetch of step 3 meets
ShouldUpdateThen(i, outcome) ==
    /\ phase = "running"
    /\ tasks[i].kind = "page"
    /\ tasks[i].pc = "icAssign"
    /\ tasks[i].ret = "su"
    /\ LET me == tasks[i]
           r == shouldUpdate(Reloaded(i), pendingUpdates, updatedChildPages,
                             me.page, me.t, me.chain)
           updatedChildPageIds == IF r.needs THEN <<>> ELSE getUpdatedChildPages(r.upd, me.page)
           cachedPageData == getCachedData(me.page, me.chain)
           ts == [tasks EXCEPT ![i].needs = r.needs, ![i].hit = ~r.needs,
                               ![i].flagged = updatedChildPageIds,
                               ![i].same = SameAsCached(Reloaded(i), me.page, me.t, me.chain),
                               ![i].content = NoFileContent]
       IN  /\ cacheMem' = Reloaded(i)
           /\ cacheDisk' = DiskAfterReload(i)
           /\ pendingUpdates' = r.pending
           /\ updatedChildPages' = r.upd
           /\ IF ~r.needs /\ Len(updatedChildPageIds) = 0
              THEN /\ outcome = NoFault
                   /\ tasks' = [ts EXCEPT ![i].pc = "done"]
                   /\ UNCHANGED <<resourcePageMap, stats>>
              ELSE IF ~r.needs /\ cachedPageData # <<>>
              THEN /\ outcome = NoFault
                   /\ tasks' = GoPartial(ts, i, updatedChildPageIds)
                   /\ UNCHANGED <<resourcePageMap, stats>>
              ELSE IF outcome.throws
              THEN /\ tasks' = Rejected([ts EXCEPT ![i].needs = TRUE], i, "content")
                   /\ UNCHANGED <<resourcePageMap, stats>>
              ELSE /\ tasks' = FullFetched([ts EXCEPT ![i].needs = TRUE], i, outcome.lost)
                   /\ resourcePageMap' = MapAfterFullFetch(i)
                   /\ stats' = StatsAfterFullFetch(i)
    /\ UNCHANGED <<shape, remote, files, cfg, phase>>

ShouldUpdate(i) == ShouldUpdateThen(i, NoFault) /\ UNCHANGED hist

\* steps 1 and 3 of processPage when the cache is disabled (lines 141-153, 186-193)
FetchFullThen(i, outcome) ==
    /\ phase = "running"
    /\ tasks[i].pc = "fetchFull"
    /\ LET ts == [tasks EXCEPT ![i].t = fetchPageData(tasks[i].page).let, ![i].needs = TRUE]
       IN  IF outcome.throws
           THEN /\ tasks' = Rejected(ts, i, "content")
                /\ UNCHANGED <<resourcePageMap, stats>>
           ELSE /\ tasks' = FullFetched(ts, i, outcome.lost)
                /\ resourcePageMap' = MapAfterFullFetch(i)
                /\ stats' = StatsAfterFullFetch(i)
    /\ UNCHANGED <<shape, remote, files, cacheDisk, cacheMem, pendingUpdates,
                   updatedChildPages, cfg, phase>>

FetchFull(i) == FetchFullThen(i, NoFault) /\ UNCHANGED hist

\* processUpdatedChildPages: a flagged child has been processed; after the
\* last one clearUpdatedChildPages(pageId) and return (lines 259-265, 172-176).
\* processPage enters it only when getCachedData returns a snapshot.  Snapshots
\* are written under SavePath and read under CachePath, so no run of Spec has
\* one to return and the step is not among the steps of Next; it is a step of
\* SpecPartial, where the snapshots are found below cacheDir.
PartialNext(i) ==
    /\ phase = "running"
    /\ tasks[i].pc = "partialWait"
    /\ KidsFinished(i)
    /\ tasks' = GoPartial(tasks, i, tasks[i].todo)
    /\ updatedChildPages' = IF tasks[i].todo = <<>>
                            THEN clearUpdatedChildPages(updatedChildPages, tasks[i].page)
                            ELSE updatedChildPages
    /\ UNCHANGED <<shape, remote, files, cacheDisk, cacheMem, pendingUpdates,
                   resourcePageMap, cfg, phase, stats, hist>>

\* Steps 6 and 7 (lines 216-232, 360-405, 283-318), run when step 5 is over:
\* the images this page owns are handed to saveFiles; then, when recursive,
\* processChildPages collects the child pages and batchProcessPages fetches
\* their metadata and starts batchShouldUpdate (which reloads the cache map
\* first) or, with the cache disabled, the first chunk.
Downloaded(i) == extractImageUrls(FetchedBlocks(tasks[i].full), tasks[i].page, FALSE,
                                  resourcePageMap)

MapAfterDownload(i) == IF cfg.includeImages THEN Downloaded(i).map ELSE resourcePageMap

DownloadCounts(counts, i) ==
    IF cfg.includeImages THEN CountDownloads(counts, Downloaded(i).images, tasks[i].page)
    ELSE counts

ProcessChildPages(ts, i) ==
    LET childPages == CollectChildPages(FetchedBlocks(ts[i].full))
    IN  IF ~cfg.recursive THEN [ts EXCEPT ![i].pc = "done"]
        ELSE IF Len(childPages) > 0 /\ cfg.enableCache
        THEN [ts EXCEPT ![i].ids = childPages, ![i].out = <<>>,
                        ![i].ret = "bsu", ![i].pc = "icRead"]
        ELSE GoChunk(ts, i, childPages)

\* a saveFile whose error escapes its try block
saveFileRethrows(blockId, failing) ==
    [blockId |-> blockId, success |-> blockId \notin failing, threw |-> blockId \in failing]

\* saveFile (file-downloader.ts lines 192-245): every error of the download
\* is caught and returned as { success: false, error }; failing holds the
\* resources whose download fails
saveFile(blockId, failing) ==
    [blockId |-> blockId, success |-> blockId \notin failing, threw |-> FALSE]

\* saveFiles (lines 254-281): one saveFile after the other, the results pushed
\* in list order; [results, threw]
saveFiles(files_, failing) ==
    LET RECURSIVE loop(_, _)
        loop(k, results) ==
            IF k > Len(files_) THEN [results |-> results, threw |-> FALSE]
            ELSE LET result == saveFile(files_[k], failing)
                 IN  IF result.threw THEN [results |-> results, threw |-> TRUE]
                     ELSE loop(k + 1, Append(results, [blockId |-> result.blockId,
                                                       success |-> result.success]))
    IN  loop(1, <<>>)

\* step 6 (lines 216-227) and, when saveFiles returned, step 7
AfterDownloads(ts, i, failing) ==
    LET saved == saveFiles(IF cfg.includeImages THEN Downloaded(i).images ELSE <<>>, failing)
        ts1 == [ts EXCEPT ![i].results = saved.results, ![i].failing = failing]
    IN  IF saved.threw THEN Rejected(ts1, i, "download") ELSE ProcessChildPages(ts1, i)

\* the resources step 6 hands to saveFiles
HandedOver(i) ==
    IF cfg.includeImages
    THEN { Downloaded(i).images[k] : k \in 1..Len(Downloaded(i).images) }
    ELSE {}

\* a processPage that goes on whatever savePageData returned
saveResultIgnored(success) == FALSE

\* lines 202-204: if (!saveResult.success) throw
saveResultThrows(success) == ~success

\* Steps 4 and 5: savePageData writes the snapshot, or fails and returns
\* success: false (saver.ts lines 55-61); updateCache changes this.cacheMap and
\* pendingUpdates and awaits saveCacheMap (lines 196-213, 426-459).  With the
\* cache disabled steps 6 and 7 follow at once.
SaveThen(i, success, failing) ==
    /\ phase = "running"
    /\ tasks[i].pc = "save"
    /\ LET me == tasks[i]
       IN  /\ files' = IF success THEN savePageData(files, me.page, me.full, me.chain)
                       ELSE files
           /\ IF saveResultThrows(success)
              THEN /\ failing = {}
                   /\ tasks' = Rejected(tasks, i, "save")
                   /\ UNCHANGED <<cacheMem, pendingUpdates, resourcePageMap, stats>>
              ELSE IF cfg.enableCache
              THEN /\ failing = {}
                   /\ cacheMem' = updateCacheMap(cacheMem, me.page, me.full.let,
                                                 calculateContentHash(PageObjectOf(me.full)),
                                                 me.chain)
                   /\ pendingUpdates' = pendingAfterUpdate(pendingUpdates, me.page)
                   /\ tasks' = [tasks EXCEPT ![i].saved = success, ![i].pc = "svStr",
                                             ![i].failedAt = IF success THEN @ ELSE "save"]
                   /\ stats' = [stats EXCEPT !.saves[formatId(me.page)] = @ + 1]
                   /\ UNCHANGED resourcePageMap
              ELSE /\ UNCHANGED <<cacheMem, pendingUpdates>>
                   /\ failing \subseteq HandedOver(i)
                   /\ tasks' = AfterDownloads(
                                   [tasks EXCEPT ![i].saved = success,
                                                 ![i].failedAt = IF success THEN @ ELSE "save"],
                                   i, failing)
                   /\ resourcePageMap' = MapAfterDownload(i)
                   /\ stats' = [stats EXCEPT !.saves[formatId(me.page)] = @ + 1,
                                             !.downloads = DownloadCounts(@, i)]
    /\ UNCHANGED <<shape, remote, cacheDisk, updatedChildPages, cfg, phase>>

Save(i) == SaveThen(i, TRUE, {}) /\ UNCHANGED hist

\* saveCacheMap, line 144: JSON.stringify(this.cacheMap) when writeFile is called
SaveCacheMapStringify(i) ==
    /\ phase = "running"
    /\ tasks[i].pc = "svStr"
    /\ tasks' = [tasks EXCEPT ![i].buf = AsRaw(cacheMem), ![i].pc = "svWrite"]
    /\ UNCHANGED <<shape, remote, files, cacheDisk, cacheMem, pendingUpdates,
                   updatedChildPages, resourcePageMap, cfg, phase, stats, hist>>

\* saveCacheMap, line 144: the write reaches the file; updateCache returns
\* and steps 6 and 7 follow
SaveCacheMapWriteThen(i, failing) ==
    /\ phase = "running"
    /\ tasks[i].pc = "svWrite"
    /\ failing \subseteq HandedOver(i)
    /\ cacheDisk' = [exists |-> TRUE, pages |-> tasks[i].buf]
    /\ tasks' = AfterDownloads([tasks EXCEPT ![i].cached = TRUE, ![i].buf = EmptyPages],
                               i, failing)
    /\ resourcePageMap' = MapAfterDownload(i)
    /\ stats' = [stats EXCEPT !.cacheWrites[formatId(tasks[i].page)] = @ + 1,
                              !.downloads = DownloadCounts(@, i)]
    /\ UNCHANGED <<shape, remote, files, cacheMem, pendingUpdates, updatedChildPages,
                   cfg, phase>>

SaveCacheMapWrite(i) == SaveCacheMapWriteThen(i, {}) /\ UNCHANGED hist

\* batchProcessPages, lines 291-318, and batchShouldUpdate (cache.ts lines
\* 321-331): a page whose metadata fetch failed (the ids in failed) is dropped
\* from pageInfos; after its own reload batchShouldUpdate starts one
\* shouldUpdate per page of pageInfos, all at once.  With an empty pageInfos
\* batchShouldUpdate is not called and every page id is processed.
BatchShouldUpdateThen(i, failed) ==
    /\ phase = "running"
    /\ tasks[i].pc = "icAssign"
    /\ tasks[i].ret = "bsu"
    /\ failed \subseteq { tasks[i].ids[k] : k \in 1..Len(tasks[i].ids) }
    /\ LET ids == SelectSeq(tasks[i].ids, LAMBDA id : id \notin failed)
           new == [k \in 1..Len(ids) |->
                      Task("should", ids[k], ChildChain(i), FALSE, i, "icRead",
                           fetchPageData(ids[k]).let)]
       IN  IF ids = <<>>
           THEN /\ tasks' = GoChunk([tasks EXCEPT ![i].content = NoFileContent], i,
                                    tasks[i].ids)
                /\ UNCHANGED <<cacheMem, cacheDisk>>
           ELSE /\ cacheMem' = Reloaded(i)
                /\ cacheDisk' = DiskAfterReload(i)
                /\ tasks' = Spawned([tasks EXCEPT ![i].pc = "bsuWait",
                                                  ![i].content = NoFileContent,
                                                  ![i].kids = NewTids(tasks, new)],
                                    new)
    /\ UNCHANGED <<shape, remote, files, pendingUpdates, updatedChildPages,
                   resourcePageMap, cfg, phase, stats>>

BatchShouldUpdate(i) == BatchShouldUpdateThen(i, {}) /\ UNCHANGED hist

\* a shouldUpdate of batchShouldUpdate decides; a page that needs the update is
\* pushed on needsUpdateIds (lines 324-329)
ShouldUpdateInBatch(i) ==
    /\ phase = "running"
    /\ tasks[i].kind = "should"
    /\ tasks[i].pc = "icAssign"
    /\ LET me == tasks[i]
           r == shouldUpdate(Reloaded(i), pendingUpdates, updatedChildPages,
                             me.page, me.t, me.chain)
       IN  /\ cacheMem' = Reloaded(i)
           /\ cacheDisk' = DiskAfterReload(i)
           /\ pendingUpdates' = r.pending
           /\ updatedChildPages' = r.upd
           /\ tasks' = [tasks EXCEPT ![i].needs = r.needs, ![i].hit = ~r.needs,
                                     ![i].pc = "done", ![i].content = NoFileContent,
                                     ![me.parent].out =
                                         IF r.needs THEN Append(@, me.page) ELSE @]
    /\ UNCHANGED <<shape, remote, files, resourcePageMap, cfg, phase, stats, hist>>

\* batchProcessPages, lines 314-335: every shouldUpdate has returned; the
\* pages that need the update are processed in chunks
BatchShouldUpdateDone(i) ==
    /\ phase = "running"
    /\ tasks[i].pc = "bsuWait"
    /\ KidsFinished(i)
    /\ tasks' = GoChunk(tasks, i, tasks[i].out)
    /\ UNCHANGED <<shape, remote, files, cacheDisk, cacheMem, pendingUpdates,
                   updatedChildPages, resourcePageMap, cfg, phase, stats, hist>>

\* Promise.all of a chunk has resolved (lines 324-332)
ChunkDone(i) ==
    /\ phase = "running"
    /\ tasks[i].pc = "chunkWait"
    /\ KidsFinished(i)
    /\ tasks' = GoChunk(tasks, i, tasks[i].ids)
    /\ UNCHANGED <<shape, remote, files, cacheDisk, cacheMem, pendingUpdates,
                   updatedChildPages, resourcePageMap, cfg, phase, stats, hist>>

\* processNestedChildPages: the awaited processPage has returned (lines 435-441)
NestedNext(i) ==
    /\ phase = "running"
    /\ tasks[i].pc = "nestedWait"
    /\ KidsFinished(i)
    /\ tasks' = GoNested(tasks, i, tasks[i].todo)
    /\ UNCHANGED <<shape, remote, files, cacheDisk, cacheMem, pendingUpdates,
                   updatedChildPages, resourcePageMap, cfg, phase, stats, hist>>

\* processPage of the root has returned: the backup command is over
RunOver == phase = "running" /\ tasks # <<>> /\ Finished(1)

Finish ==
    /\ RunOver
    /\ phase' = "idle"
    /\ tasks' = <<>>
    /\ cacheMem' = EmptyPages
    /\ pendingUpdates' = {}
    /\ updatedChildPages' = NoUpdated
    /\ resourcePageMap' = NoOwners
    /\ stats' = ZeroStats
    /\ cfg' = NoConfig
    /\ hist' = [run |-> hist.run, cache0 |-> EmptyPages, files0 |-> {}, fresh |-> FALSE,
                edited |-> FALSE, edits |-> hist.edits, allCached |-> hist.allCached,
                last |-> [fresh |-> hist.fresh /\ cfg.enableCache,
                          root |-> formatId(cfg.root)]]
    /\ UNCHANGED <<shape, remote, files, cacheDisk>>

Next ==
    \/ \E page \in PageIds, changeContent \in BOOLEAN : Edit(page, changeContent)
    \/ \E config \in ConfigsOf(shape) : StartRun(config)
    \/ \E i \in 1..Len(tasks) : InitCacheMapRead(i)
    \/ \E i \in 1..Len(tasks) : ShouldUpdate(i)
    \/ \E i \in 1..Len(tasks) : FetchFull(i)
    \/ \E i \in 1..Len(tasks) : Save(i)
    \/ \E i \in 1..Len(tasks) : SaveCacheMapStringify(i)
    \/ \E i \in 1..Len(tasks) : SaveCacheMapWrite(i)
    \/ \E i \in 1..Len(tasks) : BatchShouldUpdate(i)
    \/ \E i \in 1..Len(tasks) : ShouldUpdateInBatch(i)
    \/ \E i \in 1..Len(tasks) : BatchShouldUpdateDone(i)
    \/ \E i \in 1..Len(tasks) : ChunkDone(i)
    \/ \E i \in 1..Len(tasks) : NestedNext(i)
    \/ Finish

Spec == Init /\ [][Next]_vars

TypeOK ==
    /\ shape \in Shapes
    /\ phase \in {"idle", "running"}
    /\ \A q \in PageIds : remote[q].let \in 1..MaxRuns /\ remote[q].ver \in 0..1
    /\ cacheDisk.exists \in BOOLEAN
    /\ DOMAIN cacheDisk.pages \subseteq PageIds
    /\ DOMAIN cacheMem \subseteq PageIds
    /\ pendingUpdates \subseteq PageIds
    /\ DOMAIN updatedChildPages \subseteq PageIds
    /\ DOMAIN resourcePageMap \subseteq Resources
    /\ cfg \in RunConfigs \cup {NoConfig}
    /\ hist.run \in 0..MaxRuns
    /\ hist.edits \in 0..MaxEdits
    /\ \A i \in 1..Len(tasks) :
           /\ tasks[i].kind \in {"page", "should"}
           /\ formatId(tasks[i].page) \in PagesOf(shape)
           /\ tasks[i].parent \in 0..(i - 1)

(***************************************************************************)
(* Properties of a run                                                     *)
(***************************************************************************)
\* the record shouldUpdate looks up for a page of the tree: <<item>> or <<>>
CacheRecordOf(pages, page) ==
    IF ChainOf(shape, page) = <<>>
    THEN IF page \in DOMAIN pages THEN <<pages[page]>> ELSE <<>>
    ELSE findChildInParentChain(pages, page, ChainOf(shape, page))

PersistedPages == LoadPages(cacheDisk.pages)

RecordIsCurrent(pages, page) ==
    /\ CacheRecordOf(pages, page) # <<>>
    /\ CacheRecordOf(pages, page)[1].last_edited_time = remote[page].let

SnapshotIsCurrent(page) ==
    /\ SavePath(page, ChainOf(shape, page)) \in DOMAIN files
    /\ files[SavePath(page, ChainOf(shape, page))].let = remote[page].let

\* C1, on the tree P > C > G: after a recursive run with the cache enabled (as
\* were all runs before it) every page of the tree has a cache record and a
\* snapshot with its current remote last_edited_time.
C1_EveryPageCurrentAfterRun ==
    (RunOver /\ hist.allCached /\ shape = "chain")
        => \A page \in PagesOf(shape) :
               RecordIsCurrent(PersistedPages, page) /\ SnapshotIsCurrent(page)

\* C2: a processPage call that found the remote last_edited_time equal to the
\* one of the page's cache record fetches no full content and writes neither
\* the snapshot nor the cache record of the page.
C2_NoWorkWhenTimestampSame ==
    \A i \in 1..Len(tasks) :
        (tasks[i].kind = "page" /\ tasks[i].same)
            => ~tasks[i].fetched /\ ~tasks[i].saved /\ ~tasks[i].cached

RootId == formatId(cfg.root)

RootSnapshot == fetchFullPageData(cfg.root)

\* the root had a record with a hash and a snapshot on disk when the run
\* started, and its remote last_edited_time is another one
RootChanged ==
    /\ cfg.enableCache
    /\ RootId \in DOMAIN hist.cache0
    /\ hist.cache0[RootId].content_hash # NoHash
    /\ SavePath(cfg.root, <<>>) \in hist.files0
    /\ hist.cache0[RootId].last_edited_time # remote[RootId].let

RecordHolds(pages, page, snapshot) ==
    /\ page \in DOMAIN pages
    /\ pages[page].last_edited_time = snapshot.let
    /\ pages[page].content_hash = calculateContentHash(PageObjectOf(snapshot))

\* C3: a root whose cached last_edited_time differs from the remote one is
\* fetched in full, its snapshot is rewritten, and its cache record holds the
\* new last_edited_time and the hash of the fetched content.
C3_ChangedRootRefetched ==
    (RunOver /\ RootChanged)
        => /\ tasks[1].fetched
           /\ stats.fullFetch[RootId] >= 1
           /\ stats.saves[RootId] = 1
           /\ files[SavePath(cfg.root, <<>>)] = RootSnapshot
           /\ RecordHolds(cacheMem, RootId, RootSnapshot)
           /\ RecordHolds(PersistedPages, RootId, RootSnapshot)

C3_Witness ==
    /\ RunOver
    /\ RootChanged
    /\ hist.cache0[RootId].content_hash # calculateContentHash(PageObjectOf(RootSnapshot))
    /\ stats.saves[RootId] = 1

RECURSIVE ItemsBelow(_)
ItemsBelow(children) ==
    UNION { {children[i]} \cup ItemsBelow(children[i].children) : i \in 1..Len(children) }

\* the cached descendants of the root whose remote last_edited_time differs
ChangedDescendants ==
    { it.id : it \in { x \in ItemsBelow(hist.cache0[RootId].children) :
                         x.last_edited_time # remote[x.id].let } }

OneDescendantChanged ==
    /\ cfg.enableCache
    /\ RootId \in DOMAIN hist.cache0
    /\ hist.cache0[RootId].last_edited_time = remote[RootId].let
    /\ Cardinality(ChangedDescendants) = 1

\* C4: when the root is unchanged and exactly one cached descendant changed,
\* that descendant alone is fetched in full, saved and cache-updated; the root's
\* snapshot and record stay as they were and no other page is fetched or written.
C4_OnlyChangedDescendantUpdated ==
    (RunOver /\ OneDescendantChanged)
        => \A page \in PageIds :
               IF page \in ChangedDescendants
               THEN /\ stats.fullFetch[page] = 1
                    /\ stats.saves[page] = 1
                    /\ stats.cacheWrites[page] = 1
               ELSE /\ stats.fullFetch[page] = 0
                    /\ stats.saves[page] = 0
                    /\ stats.cacheWrites[page] = 0

NoDownloads == \A rq \in Resources \X PageIds : stats.downloads[rq] = 0

\* a root without child pages and resources that has no cache record
LoneUncachedRoot ==
    /\ cfg.enableCache
    /\ CollectChildPages(BlocksOf(shape, RootId)) = <<>>
    /\ NestedChildPages(BlocksOf(shape, RootId)) = <<>>
    /\ ImagesIn(BlocksOf(shape, RootId)) = {}
    /\ RootId \notin DOMAIN hist.cache0

\* C5: for a root without child pages, resources and cache record, processPage
\* fetches once, writes the snapshot once and leaves a top-level record with
\* the remote last_edited_time and the hash of the snapshot; nothing is
\* dispatched or downloaded.
C5_FirstRunOfLoneRoot ==
    (RunOver /\ LoneUncachedRoot)
        => /\ stats.fullFetch = [ZeroStats.fullFetch EXCEPT ![RootId] = 1]
           /\ stats.saves = [ZeroStats.saves EXCEPT ![RootId] = 1]
           /\ files[SavePath(cfg.root, <<>>)] = RootSnapshot
           /\ RecordHolds(cacheMem, RootId, RootSnapshot)
           /\ RecordHolds(PersistedPages, RootId, RootSnapshot)
           /\ Len(tasks) = 1
           /\ NoDownloads

C5_Witness == RunOver /\ LoneUncachedRoot /\ stats.saves[RootId] = 1

\* the run repeats, on an unchanged remote tree, a run that started from an empty cache
SecondRun ==
    /\ phase = "running"
    /\ cfg.enableCache
    /\ hist.last.fresh
    /\ hist.last.root = RootId
    /\ hist.run >= 2
    /\ ~hist.edited

\* C6: in a second run on an unchanged tree shouldUpdate returns false for the
\* root with no flagged descendant, and nothing is fetched in full, written,
\* cache-updated or downloaded.
C6_SecondRunDoesNothing ==
    SecondRun
        => /\ stats = ZeroStats
           /\ updatedChildPages = NoUpdated
           /\ pendingUpdates = {}
           /\ \A i \in 1..Len(tasks) : ~tasks[i].needs /\ ~tasks[i].fetched /\ ~tasks[i].saved
           /\ Len(tasks) = 1
           /\ Finished(1) => tasks[1].hit /\ tasks[1].flagged = <<>>

C6_Witness == SecondRun /\ RunOver /\ tasks[1].hit /\ cfg.hasFetcher /\ shape = "chain"

\* the pages of the tree that hold an image block with this id, in document order
Holders(resource) ==
    SelectSeq(PagePreOrder(shape, "P"),
              LAMBDA page : resource \in ImagesIn(BlocksOf(shape, page)))

TimesDownloaded(resource) ==
    LET RECURSIVE sum(_)
        sum(pages) == IF pages = {} THEN 0
                      ELSE LET q == CHOOSE x \in pages : TRUE
                           IN  stats.downloads[<<resource, q>>] + sum(pages \ {q})
    IN  sum(PageIds)

\* C10: in a run that updates the whole tree with images included, a resource
\* held by two pages is handed to the downloader once, for the holder that
\* comes first in the pre-order walk of the tree.
C10_SharedResourceOnceForFirstHolder ==
    (RunOver /\ cfg.includeImages /\ cfg.recursive /\ (hist.fresh \/ ~cfg.enableCache))
        => \A resource \in Resources :
               Len(Holders(resource)) >= 2
                   => /\ TimesDownloaded(resource) = 1
                      /\ stats.downloads[<<resource, Holders(resource)[1]>>] = 1

(***************************************************************************)
(* The load of a cache-map file: initCacheMap on a file of any of the      *)
(* shapes the code accepts (array children, legacy map-shaped children, no *)
(* children, nested records without id), of at most MaxRecs records.       *)
(***************************************************************************)
FileIds == {"P", "C", "G"}

RECURSIVE ItemsOfSize(_)
RECURSIVE ListsOfSize(_)
ItemsOfSize(n) ==
    IF n = 0 THEN {}
    ELSE { Item(id, 1, NoHash, kids) : id \in FileIds \cup {Undef}, kids \in ListsOfSize(n - 1) }

ListsOfSize(n) ==
    IF n = 0 THEN {<<>>}
    ELSE UNION { { <<it>> \o rest : it \in ItemsOfSize(k), rest \in ListsOfSize(n - k) }
                 : k \in 1..n }

\* the keys of a legacy children object are distinct
LegacyLists(n) ==
    { l \in ListsOfSize(n) :
        \A i \in 1..Len(l) : /\ l[i].children = <<>>
                             /\ l[i].id # Undef
                             /\ \A j \in 1..Len(l) : l[i].id = l[j].id => i = j }

RawItem(id, sh, children) ==
    [id |-> id, last_edited_time |-> 1, content_hash |-> NoHash, shape |-> sh,
     children |-> children]

\* the top-level records of n records that a file can hold under a key
RawItemsOfSize(key, n) ==
    { RawItem(id, "array", kids) : id \in {key, Undef}, kids \in ListsOfSize(n - 1) }
    \cup { RawItem(id, "legacy", kids) : id \in {key, Undef}, kids \in LegacyLists(n - 1) }
    \cup (IF n = 1 THEN { RawItem(id, "none", <<>>) : id \in {key, Undef} } ELSE {})

RECURSIVE RawMaps(_, _)
RawMaps(keys, budget) ==
    IF keys = {} THEN {EmptyPages}
    ELSE LET key == CHOOSE k \in keys : TRUE
         IN  RawMaps(keys \ {key}, budget)
             \cup UNION { { (key :> it) @@ rest : it \in RawItemsOfSize(key, n),
                                                  rest \in RawMaps(keys \ {key}, budget - n) }
                          : n \in 1..budget }

InitCleanup ==
    /\ shape = "chain"
    /\ remote = [q \in PageIds |-> [let |-> 1, ver |-> 0]]
    /\ files = NoFiles
    /\ cacheDisk \in { [exists |-> TRUE, pages |-> m] : m \in RawMaps(FileIds, MaxRecs) }
    /\ cacheMem = EmptyPages
    /\ pendingUpdates = {}
    /\ updatedChildPages = NoUpdated
    /\ resourcePageMap = NoOwners
    /\ cfg = NoConfig
    /\ tasks = <<>>
    /\ phase = "load"
    /\ stats = ZeroStats
    /\ hist = [calls |-> 0, again |-> FALSE]

\* initCacheMap, lines 58-92: parse, compatibility pass, cleanupDuplicatePages
InitCacheMap ==
    /\ phase = "load"
    /\ cacheDisk.exists
    /\ cacheMem' = LoadPages(cacheDisk.pages)
    /\ phase' = "loaded"
    /\ UNCHANGED <<shape, remote, files, cacheDisk, pendingUpdates, updatedChildPages,
                   resourcePageMap, cfg, tasks, stats, hist>>

NextCleanup == InitCacheMap

SpecCleanup == InitCleanup /\ [][NextCleanup]_vars

NestedIdsOf(pages) ==
    { it.id : it \in UNION { ItemsBelow(pages[k].children) : k \in DOMAIN pages } } \ {Undef}

\* C7: right after cleanupDuplicatePages ran on a loaded cache map, no id is
\* both a top-level key and the id of a record nested at any depth.
C7_NoTopLevelKeyIsNested ==
    phase = "loaded" => DOMAIN cacheMem \cap NestedIdsOf(cacheMem) = {}

\* a top-level record was removed because its id is nested two levels down
C7_Witness ==
    /\ phase = "loaded"
    /\ \E k \in DOMAIN cacheDisk.pages \ DOMAIN cacheMem :
           \E top \in DOMAIN cacheMem :
               /\ k \notin collectDirectOnly(cacheMem[top].children)
               /\ k \in NestedIdsOf(cacheMem)

(***************************************************************************)
(* The cache service called directly: any sequence of at most MaxCalls     *)
(* shouldUpdate and updateCache calls on a service constructed over an     *)
(* empty output directory, each call running to completion.                *)
(***************************************************************************)
CallIds == {"P", "C", "G"}

\* the last_edited_time values of the calls: an old and a new one
CallTimes == 1..2

\* the ancestor chains of a call: up to two distinct ancestors, none of them the page
CallChains(pageId) ==
    {<<>>}
    \cup { <<a>> : a \in CallIds \ {pageId} }
    \cup { c \in (CallIds \ {pageId}) \X (CallIds \ {pageId}) : c[1] # c[2] }

InitCache ==
    /\ shape = "chain"
    /\ remote = [q \in PageIds |-> [let |-> 1, ver |-> 0]]
    /\ files = NoFiles
    /\ cacheDisk = [exists |-> TRUE, pages |-> EmptyPages]
    /\ cacheMem = EmptyPages
    /\ pendingUpdates = {}
    /\ updatedChildPages = NoUpdated
    /\ resourcePageMap = NoOwners
    /\ cfg \in { [NoConfig EXCEPT !.enableCache = TRUE, !.hasFetcher = f] : f \in BOOLEAN }
    /\ tasks = <<>>
    /\ phase = "lib"
    /\ stats = ZeroStats
    /\ hist = [calls |-> 0, again |-> FALSE]

RECURSIVE CountBelow(_, _)
CountBelow(children, id) ==
    LET RECURSIVE sum(_)
        sum(i) == IF i > Len(children) THEN 0
                  ELSE (IF children[i].id = id THEN 1 ELSE 0)
                       + CountBelow(children[i].children, id) + sum(i + 1)
    IN  sum(1)

\* the number of records with this id in the cache tree
Occurrences(pages, id) ==
    LET keys == DOMAIN pages
        RECURSIVE sum(_)
        sum(ks) == IF ks = {} THEN 0
                   ELSE LET k == CHOOSE x \in ks : TRUE
                        IN  CountBelow(pages[k].children, id) + sum(ks \ {k})
    IN  (IF id \in keys THEN 1 ELSE 0) + sum(keys)

\* initCacheMap at the start of a shouldUpdate call: the map of the file, or,
\* when the file cannot be read or parsed, this.cacheMap as it was (the catch
\* only logs)
ReloadedPages(readable) == IF readable THEN LoadPages(cacheDisk.pages) ELSE cacheMem

\* the result of shouldUpdate for these arguments after that reload
ShouldUpdateAfterReload(pageId, lastEditedTime, parentPageIds, readable) ==
    shouldUpdate(ReloadedPages(readable), pendingUpdates, updatedChildPages,
                 pageId, lastEditedTime, parentPageIds)

\* NotionCacheService.shouldUpdate({pageId, lastEditedTime, parentPageIds}),
\* the cache-map file being readable or not
ShouldUpdateCall(pageId, lastEditedTime, parentPageIds, readable) ==
    /\ phase = "lib"
    /\ hist.calls < MaxCalls
    /\ LET pages == ReloadedPages(readable)
           r == shouldUpdate(pages, pendingUpdates, updatedChildPages,
                             pageId, lastEditedTime, parentPageIds)
       IN  /\ cacheMem' = pages
           /\ pendingUpdates' = r.pending
           /\ updatedChildPages' = r.upd
    /\ UNCHANGED <<shape, remote, files, cacheDisk, resourcePageMap, cfg, tasks, phase, stats>>

\* NotionCacheService.shouldUpdate({pageId, lastEditedTime, parentPageIds})
CallShouldUpdate(pageId, lastEditedTime, parentPageIds) ==
    /\ ShouldUpdateCall(pageId, lastEditedTime, parentPageIds, TRUE)
    /\ hist' = [hist EXCEPT !.calls = @ + 1]

\* this.cacheMap.pages after updateCache({pageId, data, parentPageIds})
UpdatedPages(pageId, lastEditedTime, parentPageIds) ==
    LET data == [id |-> formatId(pageId), let |-> lastEditedTime, ver |-> 0, lost |-> {}]
    IN  updateCacheMap(cacheMem, pageId, lastEditedTime,
                       calculateContentHash(PageObjectOf(data)), parentPageIds)

\* NotionCacheService.updateCache({pageId, data, parentPageIds}): the map in
\* memory and the file
UpdateCacheCall(pageId, lastEditedTime, parentPageIds) ==
    /\ phase = "lib"
    /\ hist.calls < MaxCalls
    /\ LET pages == UpdatedPages(pageId, lastEditedTime, parentPageIds)
       IN  /\ cacheMem' = pages
           /\ cacheDisk' = [exists |-> TRUE, pages |-> AsRaw(pages)]
    /\ pendingUpdates' = pendingAfterUpdate(pendingUpdates, pageId)
    /\ UNCHANGED <<shape, remote, files, updatedChildPages, resourcePageMap, cfg, tasks,
                   phase, stats>>

\* NotionCacheService.updateCache({pageId, data, parentPageIds})
CallUpdateCache(pageId, lastEditedTime, parentPageIds) ==
    /\ UpdateCacheCall(pageId, lastEditedTime, parentPageIds)
    /\ hist' = [calls |-> hist.calls + 1,
                again |-> hist.again \/ (/\ parentPageIds # <<>>
                                         /\ \A id \in CallIds :
                                                Occurrences(cacheMem', id)
                                                    = Occurrences(cacheMem, id))]

NextCache ==
    \/ \E pageId \in CallIds, t \in CallTimes :
           \E parentPageIds \in CallChains(pageId) :
               CallShouldUpdate(pageId, t, parentPageIds)
    \/ \E pageId \in CallIds, t \in CallTimes :
           \E parentPageIds \in CallChains(pageId) :
               CallUpdateCache(pageId, t, parentPageIds)

SpecCache == InitCache /\ [][NextCache]_vars

OnePlaceEach(pages) == \A id \in CallIds : Occurrences(pages, id) <= 1

\* C8: after any sequence of shouldUpdate and updateCache calls every id has
\* at most one record in the cache tree, in memory and in the persisted map.
C8_EachIdInOnePlace ==
    phase = "lib"
        => OnePlaceEach(cacheMem) /\ OnePlaceEach(MigratePages(cacheDisk.pages))

AllRecords(pages) ==
    { pages[k] : k \in DOMAIN pages }
    \cup UNION { ItemsBelow(pages[k].children) : k \in DOMAIN pages }

NoDuplicateChildren(item) ==
    \A i, j \in 1..Len(item.children) :
        item.children[i].id = item.children[j].id => i = j

\* C9: from an empty cache map, after any sequence of updateCache calls no
\* record's children list holds two records with the same id.
C9_ChildrenIdsDistinct ==
    phase = "lib" => \A item \in AllRecords(cacheMem) : NoDuplicateChildren(item)

\* updateCache was called with a chain and added no record: it updated the
\* record the children list already held
C9_Witness ==
    /\ phase = "lib"
    /\ hist.again
    /\ \E item \in AllRecords(cacheMem) : Len(item.children) >= 2

(***************************************************************************)
(* One run of the backup command over the configured root pages, with the  *)
(* concurrency option, in which at most MaxFaults calls of a collaborator  *)
(* fail: a metadata fetch, the fetch of the content (as a whole, or the    *)
(* listing of a nested block), savePageData, or the download of a          *)
(* resource.  The output directory is empty or holds the snapshots and the *)
(* cache map of an earlier run, made when every page had last_edited_time  *)
(* 1; the remote pages now have last_edited_time 2.                        *)
(***************************************************************************)
\* backupCommand: the loop over config.pages
CommandTask == Task("command", Undef, <<>>, FALSE, 0, "rootWait", 0)

\* the values of the concurrency option that the runs of a tree use
ConcurrencyOptions(sh) ==
    IF sh = "roots" THEN {-1, 0, 1, 2} ELSE IF sh = "fan" THEN {-1, 2} ELSE {2}

\* the option sets of the runs of a tree; the fan is run with the cache disabled
BackupConfigs(sh) ==
    { [root |-> "P", enableCache |-> e, recursive |-> TRUE, includeImages |-> sh # "roots",
       hasFetcher |-> FALSE, pages |-> RootsOf(sh), concurrency |-> c] :
          e \in (IF sh = "fan" THEN {FALSE} ELSE BOOLEAN), c \in ConcurrencyOptions(sh) }

\* backup.ts line 179: const concurrency = config.concurrency || 5
RootConcurrency(config) == IF config.concurrency = 0 THEN 5 ELSE config.concurrency

\* the root pages in flight together: one in the serial loop (lines 181-223),
\* a slice of concurrency pages in the batched loop (lines 239-272)
RootBatch(config) == IF RootConcurrency(config) <= 0 THEN 1 ELSE RootConcurrency(config)

\* the loop over the root pages starts the next processPage calls, or ends
GoRoots(ts, config, ids) ==
    IF ids = <<>>
    THEN [ts EXCEPT ![1].pc = "done", ![1].kids = {}, ![1].ids = <<>>]
    ELSE LET batch == chunkHead(ids, RootBatch(config))
         IN  Spawned([ts EXCEPT ![1].ids = chunkRest(ids, RootBatch(config)),
                                ![1].batches = @ + 1,
                                ![1].kids = NewTids(ts, batch)],
                     InBatch([k \in 1..Len(batch) |->
                                 PageTask(batch[k], <<>>, TRUE, 1, config.enableCache)],
                             ts[1].batches + 1))

RECURSIVE PreviousCache(_, _)
PreviousCache(sh, todo) ==
    IF todo = <<>> THEN EmptyPages
    ELSE LET page == todo[Len(todo)]
             data == [id |-> page, let |-> 1, ver |-> 0, lost |-> {}]
         IN  updateCacheMap(PreviousCache(sh, SubSeq(todo, 1, Len(todo) - 1)), page, 1,
                            calculateContentHash(PageObjectOf(data)), ChainOf(sh, page))

\* every page of the tree, root by root in document order
RECURSIVE AllPages(_, _)
AllPages(sh, roots) ==
    IF roots = <<>> THEN <<>> ELSE PagePreOrder(sh, Head(roots)) \o AllPages(sh, Tail(roots))

PreviousFiles(sh) ==
    [q \in { SavePath(page, ChainOf(sh, page)) : page \in PagesOf(sh) } |->
        [id |-> q[Len(q)], let |-> 1, ver |-> 0, lost |-> {}]]

InitFaults ==
    /\ shape \in FaultShapes
    /\ remote = [q \in PageIds |-> [let |-> 2, ver |-> 0]]
    /\ \E earlier \in BOOLEAN :
           /\ files = IF earlier THEN PreviousFiles(shape) ELSE NoFiles
           /\ cacheDisk = IF earlier
                          THEN [exists |-> TRUE,
                                pages |-> AsRaw(PreviousCache(shape,
                                                              AllPages(shape, RootsOf(shape))))]
                          ELSE NoFileContent
    /\ cacheMem = EmptyPages
    /\ pendingUpdates = {}
    /\ updatedChildPages = NoUpdated
    /\ resourcePageMap = NoOwners
    /\ cfg = NoConfig
    /\ tasks = <<>>
    /\ phase = "idle"
    /\ stats = ZeroStats
    /\ hist = [faults |-> 0, cache0 |-> EmptyPages]

\* backupCommand, lines 173-279: the services are built (the constructor of
\* the cache service loads or creates the cache map) and the loop over the
\* root pages starts
StartBackup(config) ==
    /\ phase = "idle"
    /\ cfg' = config
    /\ cacheMem' = IF cacheDisk.exists THEN LoadPages(cacheDisk.pages) ELSE EmptyPages
    /\ cacheDisk' = IF cacheDisk.exists THEN cacheDisk
                    ELSE [exists |-> TRUE, pages |-> AsRaw(EmptyPages)]
    /\ tasks' = GoRoots(<<CommandTask>>, config, config.pages)
    /\ phase' = "running"
    /\ hist' = [hist EXCEPT !.cache0 = IF cacheDisk.exists THEN LoadPages(cacheDisk.pages)
                                       ELSE EmptyPages]
    /\ UNCHANGED <<shape, remote, files, pendingUpdates, updatedChildPages, resourcePageMap,
                   stats>>

\* every processPage of the roots in flight has settled (the await of line 210
\* inside try/catch, the Promise.all of line 271 over promises that catch)
RootsDone ==
    /\ phase = "running"
    /\ tasks[1].kind = "command"
    /\ tasks[1].pc = "rootWait"
    /\ \A k \in tasks[1].kids : Settled(k)
    /\ tasks' = GoRoots(tasks, cfg, tasks[1].ids)
    /\ UNCHANGED <<shape, remote, files, cacheDisk, cacheMem, pendingUpdates,
                   updatedChildPages, resourcePageMap, cfg, phase, stats, hist>>

OneMoreFault(n) ==
    /\ hist.faults + n <= MaxFaults
    /\ hist' = [hist EXCEPT !.faults = @ + n]

\* step 1 of processPage: fetchPageData throws (part_011 line 141)
FetchPageDataFails(i) ==
    /\ phase = "running"
    /\ tasks[i].kind = "page"
    /\ \/ tasks[i].pc = "icRead" /\ tasks[i].ret = "su"
       \/ tasks[i].pc = "fetchFull"
    /\ OneMoreFault(1)
    /\ tasks' = Rejected(tasks, i, "metadata")
    /\ UNCHANGED <<shape, remote, files, cacheDisk, cacheMem, pendingUpdates,
                   updatedChildPages, resourcePageMap, cfg, phase, stats>>

\* step 3: fetchFullPageData throws, or loses the children of nested blocks
FetchFullPageDataFails(i, outcome) ==
    /\ outcome # NoFault
    /\ OneMoreFault(1)
    /\ \/ ShouldUpdateThen(i, outcome)
       \/ FetchFullThen(i, outcome)

\* step 4: savePageData returns success: false
SavePageDataFails(i) ==
    /\ OneMoreFault(1)
    /\ SaveThen(i, FALSE, {})

\* step 6: the downloads of the resources in failing fail
DownloadFails(i, failing) ==
    /\ failing # {}
    /\ OneMoreFault(Cardinality(failing))
    /\ \/ SaveThen(i, TRUE, failing)
       \/ SaveCacheMapWriteThen(i, failing)

\* batchProcessPages, lines 292-303: the metadata fetches of the pages in failed
\* throw and are caught
PrefetchFails(i, failed) ==
    /\ failed # {}
    /\ OneMoreFault(Cardinality(failed))
    /\ BatchShouldUpdateThen(i, failed)

NextFaults ==
    \/ \E config \in BackupConfigs(shape) : StartBackup(config)
    \/ RootsDone
    \/ \E i \in 1..Len(tasks) : InitCacheMapRead(i)
    \/ \E i \in 1..Len(tasks) : ShouldUpdate(i)
    \/ \E i \in 1..Len(tasks) : FetchFull(i)
    \/ \E i \in 1..Len(tasks) : Save(i)
    \/ \E i \in 1..Len(tasks) : SaveCacheMapStringify(i)
    \/ \E i \in 1..Len(tasks) : SaveCacheMapWrite(i)
    \/ \E i \in 1..Len(tasks) : BatchShouldUpdate(i)
    \/ \E i \in 1..Len(tasks) : ShouldUpdateInBatch(i)
    \/ \E i \in 1..Len(tasks) : BatchShouldUpdateDone(i)
    \/ \E i \in 1..Len(tasks) : ChunkDone(i)
    \/ \E i \in 1..Len(tasks) : NestedNext(i)
    \/ \E i \in 1..Len(tasks) : FetchPageDataFails(i)
    \/ \E i \in 1..Len(tasks) :
           \E outcome \in FetchFaults(tasks[i].page) : FetchFullPageDataFails(i, outcome)
    \/ \E i \in 1..Len(tasks) : SavePageDataFails(i)
    \/ \E i \in 1..Len(tasks) : \E failing \in SUBSET Resources : DownloadFails(i, failing)
    \/ \E i \in 1..Len(tasks) : \E failed \in SUBSET PageIds : PrefetchFails(i, failed)

SpecFaults == InitFaults /\ [][NextFaults]_vars

(***************************************************************************)
(* Properties of the run with failures                                     *)
(***************************************************************************)
\* the processPage calls started by call p (0: none) that have not settled
InFlightBelow(p) ==
    { k \in 1..Len(tasks) :
        tasks[k].parent = p /\ tasks[k].kind = "page" /\ ~Settled(k) }

\* the child pages that processChildPages hands to batchProcessPages
SiblingsBelow(i) == CollectChildPages(FetchedBlocks(tasks[i].full))

Ceil(n, k) == (n + k - 1) \div k

\* C11: with concurrencyLimit = k > 0, a page never has more than k of its
\* child-page branches in flight, and once it has dispatched its N child pages
\* without a failure it has done so in ceil(N/k) batches.
C11_AtMostKSiblingsInFlight ==
    (phase = "running" /\ cfg.concurrency > 0)
        => \A i \in 1..Len(tasks) :
               tasks[i].kind = "page"
                   => /\ Cardinality(InFlightBelow(i)) <= cfg.concurrency
                      /\ (Finished(i) /\ tasks[i].saved)
                             => tasks[i].batches
                                    = Ceil(Len(SiblingsBelow(i)), cfg.concurrency)

\* C12: with concurrencyLimit <= 0 (0 included) at most one processPage of a
\* sibling child page or of a root page is in flight at any time, and when the
\* dispatch of the roots has ended every root was processed once.
C12_SerialWhenLimitNotPositive ==
    (phase = "running" /\ cfg.concurrency <= 0)
        => /\ \A p \in 1..Len(tasks) : Cardinality(InFlightBelow(p)) <= 1
           /\ Finished(1)
                  => \A r \in 1..Len(cfg.pages) :
                         Cardinality({ k \in 1..Len(tasks) :
                                         tasks[k].isRoot /\ tasks[k].page = cfg.pages[r] }) = 1

\* C13: with concurrencyLimit > 0, whenever a branch of a later batch of a
\* dispatcher has been started, every branch of its earlier batches has
\* settled, by returning or by throwing.
C13_NextBatchAfterWholeBatch ==
    (phase = "running" /\ cfg.concurrency > 0)
        => \A k, j \in 1..Len(tasks) :
               (/\ tasks[k].parent = tasks[j].parent
                /\ tasks[k].batch >= 1
                /\ tasks[j].batch > tasks[k].batch)
                   => Settled(k)

\* a page has started the second batch of its child pages
C13_Witness ==
    /\ phase = "running"
    /\ cfg.concurrency > 0
    /\ \E k, j \in 1..Len(tasks) :
           /\ tasks[k].parent = tasks[j].parent
           /\ tasks[k].parent # 0
           /\ tasks[tasks[k].parent].kind = "page"
           /\ tasks[k].batch = 1
           /\ tasks[j].batch = 2
           /\ ~Settled(j)

\* C14: when a branch of a concurrent batch fails, its parent's processPage
\* has failed in the same step and has no branch of a later batch; a call
\* fails only by a failure of its own or of a branch it awaits, so the other
\* branches of the batch go on (and can write their snapshot and cache record
\* after the parent failed).
C14_FailFastBatch ==
    \A k \in 1..Len(tasks) :
        /\ (/\ tasks[k].pc = "failed"
            /\ tasks[k].parent # 0
            /\ tasks[tasks[k].parent].kind = "page")
               => /\ tasks[tasks[k].parent].pc = "failed"
                  /\ tasks[k].batch >= 1
                         => \A j \in 1..Len(tasks) :
                                tasks[j].parent = tasks[k].parent
                                    => tasks[j].batch <= tasks[k].batch
        /\ (tasks[k].pc = "failed" /\ tasks[k].failedAt = "child")
               => \E j \in 1..Len(tasks) : tasks[j].parent = k /\ tasks[j].pc = "failed"
        /\ tasks[k].pc = "failed" => tasks[k].failedAt # ""

\* a branch that was still at its first steps when its parent failed has since
\* written its snapshot and its cache record
C14_Witness ==
    \E j \in 1..Len(tasks) :
        /\ tasks[j].orphan \in {"icRead", "icAssign", "save"}
        /\ tasks[tasks[j].parent].pc = "failed"
        /\ tasks[j].saved
        /\ tasks[j].cached
        /\ Finished(j)

\* C15: the loop over the configured roots never fails, and when it has ended
\* processPage was called for every configured root, whatever the other
\* roots' calls did.
C15_EveryRootAttempted ==
    (phase = "running")
        => /\ tasks[1].pc # "failed"
           /\ Finished(1)
                  => \A r \in 1..Len(cfg.pages) :
                         \E k \in 1..Len(tasks) :
                             /\ tasks[k].isRoot
                             /\ tasks[k].parent = 1
                             /\ tasks[k].page = cfg.pages[r]
                             /\ Settled(k)

\* the serial loop has ended: the first root failed, the roots after it were processed
C15_Witness ==
    /\ phase = "running"
    /\ cfg.concurrency < 0
    /\ Finished(1)
    /\ Len(cfg.pages) >= 2
    /\ \E k \in 1..Len(tasks) :
           /\ tasks[k].isRoot /\ tasks[k].page = cfg.pages[1] /\ tasks[k].pc = "failed"
    /\ \A r \in 2..Len(cfg.pages) :
           \E k \in 1..Len(tasks) :
               tasks[k].isRoot /\ tasks[k].page = cfg.pages[r] /\ Finished(k)

\* call i is the only processPage call of its page in the run
OnlyCallOfPage(i) ==
    \A j \in 1..Len(tasks) :
        (j # i /\ tasks[j].kind = "page") => tasks[j].page # tasks[i].page

\* C16: a processPage call whose savePageData returned success: false has
\* failed; it made no updateCache call, handed nothing to the downloader and
\* started no child page, and (the call being the page's only one) the
\* page's cache record, in memory and in the file, is the one of the start
\* of the run.
C16_FailedSaveStopsThePage ==
    \A i \in 1..Len(tasks) :
        (tasks[i].kind = "page" /\ tasks[i].failedAt = "save")
            => /\ tasks[i].pc = "failed"
               /\ ~tasks[i].cached
               /\ tasks[i].results = <<>>
               /\ \A j \in 1..Len(tasks) : tasks[j].parent # i
               /\ OnlyCallOfPage(i)
                      => /\ stats.cacheWrites[formatId(tasks[i].page)] = 0
                         /\ \A r \in Resources :
                                stats.downloads[<<r, formatId(tasks[i].page)>>] = 0
                         /\ LookedUp(cacheMem, tasks[i].page, tasks[i].chain)
                                = LookedUp(hist.cache0, tasks[i].page, tasks[i].chain)
                         /\ LookedUp(LoadPages(cacheDisk.pages), tasks[i].page, tasks[i].chain)
                                = LookedUp(hist.cache0, tasks[i].page, tasks[i].chain)

\* savePageData failed for a page that has child pages and a cache record
C16_Witness ==
    \E i \in 1..Len(tasks) :
        /\ tasks[i].kind = "page"
        /\ tasks[i].failedAt = "save"
        /\ cfg.enableCache
        /\ cfg.recursive
        /\ OnlyCallOfPage(i)
        /\ CollectChildPages(BlocksOf(shape, tasks[i].page)) # <<>>
        /\ LookedUp(hist.cache0, tasks[i].page, tasks[i].chain) # <<>>

\* the call has passed step 6 (the downloads) of processPage
PastDownloads(i) ==
    /\ tasks[i].kind = "page"
    /\ cfg.includeImages
    /\ IF cfg.enableCache THEN tasks[i].cached ELSE tasks[i].saved

C19_FetchFailureFailsThePage ==
    \A i \in 1..Len(tasks) :
        (/\ tasks[i].kind = "page"
         /\ \/ tasks[i].failedAt \in {"metadata", "content"}
            \/ tasks[i].full.lost # {})
            => /\ ~tasks[i].saved
               /\ ~tasks[i].cached
               /\ ~Finished(i)

(***************************************************************************)
(* The cache service with a cache-map file that can be unreadable: calls   *)
(* of shouldUpdate and updateCache as above, where the reload that starts  *)
(* a shouldUpdate call may fail to read or parse the file.                 *)
(***************************************************************************)
ReloadIds == {"P", "C"}

\* the ancestor chains of a call: the page is a top-level page or a child of the other page
ReloadChains(pageId) == {<<>>} \cup { <<a>> : a \in ReloadIds \ {pageId} }

\* the outcome of the last shouldUpdate call: was the file readable, what was
\* returned, did the call throw, and did the map in memory hold a record of
\* the page with the call's timestamp before the call
NoCall == [readable |-> TRUE, needs |-> TRUE, threw |-> FALSE, held |-> FALSE]

InitReload ==
    /\ shape = "chain"
    /\ remote = [q \in PageIds |-> [let |-> 1, ver |-> 0]]
    /\ files = NoFiles
    /\ cacheDisk = [exists |-> TRUE, pages |-> EmptyPages]
    /\ cacheMem = EmptyPages
    /\ pendingUpdates = {}
    /\ updatedChildPages = NoUpdated
    /\ resourcePageMap = NoOwners
    /\ cfg \in { [NoConfig EXCEPT !.enableCache = TRUE, !.hasFetcher = f] : f \in BOOLEAN }
    /\ tasks = <<>>
    /\ phase = "lib"
    /\ stats = ZeroStats
    /\ hist = [calls |-> 0, loaded |-> FALSE, last |-> NoCall]

\* shouldUpdate with the file readable or not; shouldUpdate catches whatever
\* is thrown inside it and returns true (lines 298-303), so it never throws
ReloadShouldUpdate(pageId, lastEditedTime, parentPageIds, readable) ==
    /\ ShouldUpdateCall(pageId, lastEditedTime, parentPageIds, readable)
    /\ hist' = [calls |-> hist.calls + 1,
                loaded |-> hist.loaded \/ readable,
                last |-> [readable |-> readable,
                          needs |-> ShouldUpdateAfterReload(pageId, lastEditedTime,
                                                            parentPageIds, readable).needs,
                          threw |-> FALSE,
                          held |-> LET item == LookedUp(cacheMem, pageId, parentPageIds)
                                   IN  item # <<>> /\ item[1].last_edited_time = lastEditedTime]]

ReloadUpdateCache(pageId, lastEditedTime, parentPageIds) ==
    /\ UpdateCacheCall(pageId, lastEditedTime, parentPageIds)
    /\ hist' = [hist EXCEPT !.calls = @ + 1]

NextReload ==
    \/ \E pageId \in ReloadIds, t \in CallTimes, readable \in BOOLEAN :
           \E parentPageIds \in ReloadChains(pageId) :
               ReloadShouldUpdate(pageId, t, parentPageIds, readable)
    \/ \E pageId \in ReloadIds, t \in CallTimes :
           \E parentPageIds \in ReloadChains(pageId) :
               ReloadUpdateCache(pageId, t, parentPageIds)

SpecReload == InitReload /\ [][NextReload]_vars

\* C18: a shouldUpdate call whose reload could not read or parse the cache-map
\* file returns true and does not throw, also after an earlier successful
\* load or write of the map.
C18_UnreadableCacheMeansUpdate ==
    (phase = "lib" /\ hist.calls > 0 /\ ~hist.last.readable)
        => hist.last.needs /\ ~hist.last.threw

(***************************************************************************)
(* calculateContentHash on its own: a page object is fetched and hashed,   *)
(* then changed remotely field by field (at most MaxEdits changes), and    *)
(* fetched and hashed again after every change.  hist.a is the first       *)
(* object, hist.b the current one, hist.ha and hist.hb their digests.      *)
(***************************************************************************)
BlockIds == {"B1", "B2", "B3"}

BlockTypes == {"paragraph", "child_page"}

HashedBlock(id, type) ==
    [id |-> id, type |-> type, has_children |-> type = "child_page",
     last_edited_time |-> 1, children |-> <<>>]

\* fetched page objects: with a children array (fetchFullPageData) or without
\* one (fetchPageData)
HashedPages ==
    { [id |-> "P", last_edited_time |-> 1, created_time |-> 1,
       title |-> 0, icon |-> 0, cover |-> 0, properties |-> 0] }
    \cup { [id |-> "P", last_edited_time |-> 1, created_time |-> 1,
            title |-> 0, icon |-> 0, cover |-> 0, properties |-> 0, children |-> c] :
             c \in {<<>>, <<HashedBlock("B1", "paragraph")>>,
                    <<HashedBlock("B1", "child_page")>>} }

InitHash ==
    /\ shape = "single"
    /\ remote = [q \in PageIds |-> [let |-> 1, ver |-> 0]]
    /\ files = NoFiles
    /\ cacheDisk = [exists |-> FALSE, pages |-> EmptyPages]
    /\ cacheMem = EmptyPages
    /\ pendingUpdates = {}
    /\ updatedChildPages = NoUpdated
    /\ resourcePageMap = NoOwners
    /\ cfg = NoConfig
    /\ tasks = <<>>
    /\ phase = "hash"
    /\ stats = ZeroStats
    /\ \E pageData \in HashedPages :
           hist = [a |-> pageData, b |-> pageData,
                   ha |-> calculateContentHash(pageData),
                   hb |-> calculateContentHash(pageData), edits |-> 0]

\* the changed object is fetched and hashed
Rehashed(pageData) ==
    /\ phase = "hash"
    /\ hist.edits < MaxEdits
    /\ hist' = [hist EXCEPT !.b = pageData, !.hb = calculateContentHash(pageData),
                            !.edits = @ + 1]
    /\ UNCHANGED <<shape, remote, files, cacheDisk, cacheMem, pendingUpdates,
                   updatedChildPages, resourcePageMap, cfg, tasks, phase, stats>>

HasBlocks == "children" \in DOMAIN hist.b

\* one of title, icon, cover, properties gets a new value
EditContent(field) ==
    Rehashed([hist.b EXCEPT ![field] = @ + 1])

\* the page is touched: only its last_edited_time moves
TouchPage ==
    Rehashed([hist.b EXCEPT !.last_edited_time = @ + 1])

\* a child block is touched: only its last_edited_time moves
TouchBlock(i) ==
    /\ HasBlocks
    /\ i \in 1..Len(hist.b.children)
    /\ Rehashed([hist.b EXCEPT !.children[i].last_edited_time = @ + 1])

\* the content below a child block changes
EditNested(i) ==
    /\ HasBlocks
    /\ i \in 1..Len(hist.b.children)
    /\ hist.b.children[i].has_children
    /\ Rehashed([hist.b EXCEPT !.children[i].children = @ \o <<HashedBlock("B3", "paragraph")>>])

AppendBlock(id, type) ==
    /\ HasBlocks
    /\ Len(hist.b.children) < MaxBlocks
    /\ \A i \in 1..Len(hist.b.children) : hist.b.children[i].id # id
    /\ Rehashed([hist.b EXCEPT !.children = Append(@, HashedBlock(id, type))])

RemoveBlock ==
    /\ HasBlocks
    /\ Len(hist.b.children) > 0
    /\ Rehashed([hist.b EXCEPT !.children = SubSeq(@, 1, Len(@) - 1)])

\* the first two child blocks change places
SwapBlocks ==
    /\ HasBlocks
    /\ Len(hist.b.children) >= 2
    /\ Rehashed([hist.b EXCEPT !.children = <<@[2], @[1]>> \o SubSeq(@, 3, Len(@))])

\* a block becomes a block of the other type, has_children following the type
RetypeBlock(i) ==
    /\ HasBlocks
    /\ i \in 1..Len(hist.b.children)
    /\ LET type == CHOOSE t \in BlockTypes : t # hist.b.children[i].type
       IN  Rehashed([hist.b EXCEPT !.children[i].type = type,
                                   !.children[i].has_children = type = "child_page"])

NextHash ==
    \/ \E field \in {"title", "icon", "cover", "properties"} : EditContent(field)
    \/ TouchPage
    \/ \E i \in 1..MaxBlocks : TouchBlock(i)
    \/ \E i \in 1..MaxBlocks : EditNested(i)
    \/ \E id \in BlockIds, type \in BlockTypes : AppendBlock(id, type)
    \/ RemoveBlock
    \/ SwapBlocks
    \/ \E i \in 1..MaxBlocks : RetypeBlock(i)

SpecHash == InitHash /\ [][NextHash]_vars

\* the (id, type, has_children) triples of the direct children, in order
Triples(pageData) ==
    IF "children" \in DOMAIN pageData
    THEN [i \in 1..Len(pageData.children) |->
             <<pageData.children[i].id, pageData.children[i].type,
               pageData.children[i].has_children>>]
    ELSE <<>>

\* two page objects that agree on title, icon, cover, properties and the triples
SameContent(x, y) ==
    /\ x.title = y.title
    /\ x.icon = y.icon
    /\ x.cover = y.cover
    /\ x.properties = y.properties
    /\ Triples(x) = Triples(y)

\* C20: two page objects that agree on title, icon, cover, properties and the
\* (id, type, has_children) triples of their direct children in order have
\* the same digest, whatever their timestamps and nested content are, and
\* hashing an object again gives the digest it had.
C20_HashIgnoresTimestamps ==
    phase = "hash"
        => /\ SameContent(hist.a, hist.b) => hist.ha = hist.hb
           /\ calculateContentHash(hist.b) = hist.hb
           /\ calculateContentHash(hist.a) = hist.ha

\* the page and one of its blocks were touched since the first hash, nothing else changed
C20_Witness ==
    /\ phase = "hash"
    /\ hist.edits = 2
    /\ hist.a.last_edited_time # hist.b.last_edited_time
    /\ HasBlocks
    /\ \E i \in 1..Len(hist.b.children) :
           /\ i <= Len(hist.a.children)
           /\ hist.a.children[i].last_edited_time # hist.b.children[i].last_edited_time
    /\ SameContent(hist.a, hist.b)
    /\ hist.ha = hist.hb

(***************************************************************************)
(* A snapshot on its way through the file system.  processPage hands the   *)
(* same page object to savePageData, which writes JSON.stringify(data),    *)
(* and to updateCache, which stores its digest; getCachedData returns      *)
(* JSON.parse of the file it finds below cacheDir.  A JSON text is the     *)
(* sequence of its <<key, value>> members.  Nothing in the repository      *)
(* writes a snapshot below cacheDir: SnapshotPlaced is the environment     *)
(* putting the saved file where getCachedData looks.                       *)
(***************************************************************************)
PageKeys == <<"id", "created_time", "last_edited_time", "icon", "cover",
              "properties", "title", "children">>

BlockKeys == <<"id", "type", "has_children", "children">>

Null == "null"

\* a serialiser that leaves out null members as well
DefinedNotNull(obj, key) ==
    /\ key \in DOMAIN obj
    /\ key \in {"children", "has_children"} \/ obj[key] \notin {Undef, Null}

\* JSON.stringify writes a member for every property whose value is not undefined
Defined(obj, key) ==
    /\ key \in DOMAIN obj
    /\ key \in {"children", "has_children"} \/ obj[key] # Undef

RECURSIVE stringifyObject(_, _)
stringifyObject(obj, keys) ==
    LET IsDefined(key) == Defined(obj, key)
        present == SelectSeq(keys, IsDefined)
    IN  [i \in 1..Len(present) |->
            <<present[i],
              IF present[i] = "children"
              THEN [j \in 1..Len(obj.children) |->
                       stringifyObject(obj.children[j], BlockKeys)]
              ELSE obj[present[i]]>>]

\* JSON.stringify(data, null, 2) of savePageData
JSONstringify(data) == stringifyObject(data, PageKeys)

\* JSON.parse(content) of getCachedData
RECURSIVE JSONparse(_)
JSONparse(content) ==
    [key \in {content[i][1] : i \in 1..Len(content)} |->
        LET v == content[CHOOSE i \in 1..Len(content) : content[i][1] = key][2]
        IN  IF key = "children" THEN [j \in 1..Len(v) |-> JSONparse(v[j])] ELSE v]

\* blocks as fetchFullPageData returns them: children only where it listed them
SavedBlocks ==
    { [id |-> "B1", type |-> "paragraph", has_children |-> FALSE],
      [id |-> "B2", type |-> "child_page", has_children |-> TRUE],
      [id |-> "B3", type |-> "toggle", has_children |-> TRUE,
       children |-> <<[id |-> "B4", type |-> "image", has_children |-> FALSE]>>] }

SavedChildren ==
    UNION { { c \in [1..n -> SavedBlocks] : \A i, j \in 1..n : c[i].id = c[j].id => i = j } :
              n \in 0..MaxBlocks }

\* page objects: the title is no property of a Notion page (undefined), icon
\* and cover are null or set
SavedPages ==
    LET meta == [id : {"P"}, created_time : {"t1"}, last_edited_time : {"t2"},
                 title : {Undef, "T"}, icon : {Null, "i"}, cover : {Null, "c"},
                 properties : {"a", "b"}]
    IN  meta \cup { [k \in DOMAIN m \cup {"children"} |->
                        IF k = "children" THEN c ELSE m[k]] :
                      m \in meta, c \in SavedChildren }

InitPersist ==
    /\ shape = "single"
    /\ remote = [q \in PageIds |-> [let |-> 1, ver |-> 0]]
    /\ files = NoFiles
    /\ cacheDisk = [exists |-> TRUE, pages |-> EmptyPages]
    /\ cacheMem = EmptyPages
    /\ pendingUpdates = {}
    /\ updatedChildPages = NoUpdated
    /\ resourcePageMap = NoOwners
    /\ cfg = NoConfig
    /\ tasks = <<>>
    /\ phase = "persist"
    /\ stats = ZeroStats
    /\ \E data \in SavedPages :
           hist = [data |-> data, step |-> "fetched", back |-> <<>>, digest |-> <<>>]

\* step 4 of processPage: savePageData({pageId, data, parentPageIds})
SavePageDataWrites ==
    /\ phase = "persist"
    /\ hist.step = "fetched"
    /\ files' = savePageData(files, "P", JSONstringify(hist.data), <<>>)
    /\ hist' = [hist EXCEPT !.step = "saved"]
    /\ UNCHANGED <<shape, remote, cacheDisk, cacheMem, pendingUpdates, updatedChildPages,
                   resourcePageMap, cfg, tasks, phase, stats>>

\* step 5 of processPage: updateCache({pageId, data, parentPageIds})
UpdateCacheStores ==
    /\ phase = "persist"
    /\ hist.step = "saved"
    /\ LET pages == updateCacheMap(cacheMem, "P", 2, calculateContentHash(hist.data), <<>>)
       IN  /\ cacheMem' = pages
           /\ cacheDisk' = [exists |-> TRUE, pages |-> AsRaw(pages)]
    /\ hist' = [hist EXCEPT !.step = "cached"]
    /\ UNCHANGED <<shape, remote, files, pendingUpdates, updatedChildPages,
                   resourcePageMap, cfg, tasks, phase, stats>>

\* the saved file is put below cacheDir
SnapshotPlaced ==
    /\ phase = "persist"
    /\ hist.step = "cached"
    /\ files' = [q \in DOMAIN files \cup {CachePath("P", <<>>)} |->
                    IF q = CachePath("P", <<>>) THEN files[SavePath("P", <<>>)]
                    ELSE files[q]]
    /\ hist' = [hist EXCEPT !.step = "placed"]
    /\ UNCHANGED <<shape, remote, cacheDisk, cacheMem, pendingUpdates, updatedChildPages,
                   resourcePageMap, cfg, tasks, phase, stats>>

\* shouldUpdate, lines 215-217: getCachedData and calculateContentHash of its result
CachedDataRehashed ==
    /\ phase = "persist"
    /\ hist.step = "placed"
    /\ getCachedData("P", <<>>) # <<>>
    /\ LET cachedData == JSONparse(getCachedData("P", <<>>)[1])
       IN  hist' = [hist EXCEPT !.step = "read", !.back = <<cachedData>>,
                                !.digest = <<calculateContentHash(cachedData)>>]
    /\ UNCHANGED <<shape, remote, files, cacheDisk, cacheMem, pendingUpdates,
                   updatedChildPages, resourcePageMap, cfg, tasks, phase, stats>>

NextPersist ==
    \/ SavePageDataWrites
    \/ UpdateCacheStores
    \/ SnapshotPlaced
    \/ CachedDataRehashed

SpecPersist == InitPersist /\ [][NextPersist]_vars

\* C21: the digest that the cache service computes from the copy of a
\* snapshot it reads back equals the digest updateCache stored in the
\* snapshot's cache record.
C21_RereadSnapshotSameDigest ==
    (phase = "persist" /\ hist.step = "read")
        => /\ "P" \in DOMAIN cacheMem
           /\ hist.digest[1] = cacheMem["P"].content_hash
           /\ hist.digest[1] = MigratePages(cacheDisk.pages)["P"].content_hash

\* a snapshot without a title, with a null icon and with nested blocks was
\* written, read back as an object that lacks the title, and hashed again
C21_Witness ==
    /\ phase = "persist"
    /\ hist.step = "read"
    /\ hist.data.title = Undef
    /\ hist.data.icon = Null
    /\ "children" \in DOMAIN hist.data
    /\ Len(hist.data.children) = 2
    /\ "title" \notin DOMAIN hist.back[1]
    /\ hist.back[1] # hist.data
    /\ hist.digest[1] = cacheMem["P"].content_hash

\* C22: a record that updateCache has written stays in the persisted cache map
\* with its timestamp until the end of the run; when two branches of one
\* batch have both completed their full update, the persisted map holds the
\* records of both once the run has ended.
C22_WrittenRecordsStay ==
    (phase = "running" /\ \A k \in 1..Len(tasks) : Settled(k))
        => \A k \in 1..Len(tasks) :
               (tasks[k].kind = "page" /\ tasks[k].cached)
                   => LET rec == LookedUp(MigratePages(cacheDisk.pages),
                                          tasks[k].page, tasks[k].chain)
                      IN  /\ rec # <<>>
                          /\ rec[1].last_edited_time = tasks[k].full.let

\* the steps a call is suspended at inside the cache service
CacheSteps == {"icRead", "icAssign", "svStr", "svWrite", "bsuWait"}

\* C23: in a run with enableCache = false no call is ever inside shouldUpdate,
\* batchShouldUpdate or updateCache; the cache map in memory and in the file,
\* pendingUpdates and updatedChildPages stay as the constructor left them;
\* and every processPage that has returned fetched its page in full and wrote
\* the snapshot it fetched, whatever the cache map holds.
C23_DisabledCacheUntouched ==
    (phase = "running" /\ ~cfg.enableCache)
        => /\ cacheMem = hist.cache0
           /\ PersistedPages = hist.cache0
           /\ pendingUpdates = {}
           /\ updatedChildPages = NoUpdated
           /\ \A page \in PageIds : stats.cacheWrites[page] = 0
           /\ \A k \in 1..Len(tasks) :
                  /\ tasks[k].kind = "page"
                  /\ tasks[k].pc \notin CacheSteps
                  /\ ~tasks[k].cached /\ ~tasks[k].hit
                  /\ Finished(k)
                         => /\ tasks[k].fetched /\ tasks[k].saved
                            /\ SavePath(tasks[k].page, tasks[k].chain) \in DOMAIN files
                            /\ files[SavePath(tasks[k].page, tasks[k].chain)] = tasks[k].full

\* a run without the cache over the unchanged tree P > C > G that an earlier
\* run with the cache recorded completely has fetched and written every page
C23_Witness ==
    /\ RunOver
    /\ ~cfg.enableCache
    /\ shape = "chain"
    /\ hist.run = 2
    /\ ~hist.edited
    /\ \A page \in PagesOf(shape) :
           /\ RecordIsCurrent(hist.cache0, page)
           /\ stats.fullFetch[page] >= 1
           /\ stats.saves[page] = 1
    /\ cacheMem = hist.cache0

(***************************************************************************)
(* Change detection on a recorded tree.  An earlier backup recorded the    *)
(* tree P > C > G at time 1; since then any of the three pages may have    *)
(* been edited (time 2).  The snapshots of that backup are below cacheDir  *)
(* as they were written ("same"), as another version ("other"), or not at  *)
(* all ("none"); the cache service has a fetcher or not.  shouldUpdate is  *)
(* called with the page's remote last_edited_time and with the page's      *)
(* chain or another one, updateCache with the page's chain.  hist.last is  *)
(* the last call and what it met, hist.owed the ids for which shouldUpdate *)
(* returned true and updateCache has not been called since.                *)
(***************************************************************************)
DetectIds == {"P", "C", "G"}

\* the chains shouldUpdate is called with: the page's own chain, a chain that
\* skips an ancestor, a chain whose first id has no top-level record
DetectChains(pageId) ==
    IF pageId = "G" THEN {<<"P", "C">>, <<"P">>, <<"C">>}
    ELSE IF pageId = "C" THEN {<<"P">>, <<"G">>}
    ELSE {<<>>}

SnapshotKinds == {"none", "same", "other"}

\* the snapshot files below cacheDir
MirroredFiles(kind) ==
    IF kind = "none" THEN NoFiles
    ELSE [q \in { CachePath(page, ChainOf("chain", page)) : page \in DetectIds } |->
             [id |-> q[Len(q)], let |-> 1, ver |-> IF kind = "same" THEN 0 ELSE 1,
              lost |-> {}]]

NoDetect == [kind |-> "none", id |-> "P", chain |-> <<>>, t |-> 0, needs |-> FALSE,
             wasPending |-> FALSE, upd0 |-> NoUpdated]

InitDetect ==
    /\ shape = "chain"
    /\ \E lets \in [DetectIds -> 1..2] :
           remote = [q \in PageIds |-> [let |-> IF q \in DetectIds THEN lets[q] ELSE 1,
                                        ver |-> 0]]
    /\ \E kind \in SnapshotKinds : files = MirroredFiles(kind)
    /\ cacheMem = PreviousCache("chain", <<"P", "C", "G">>)
    /\ cacheDisk = [exists |-> TRUE, pages |-> AsRaw(cacheMem)]
    /\ pendingUpdates = {}
    /\ updatedChildPages = NoUpdated
    /\ resourcePageMap = NoOwners
    /\ cfg \in { [NoConfig EXCEPT !.enableCache = TRUE, !.hasFetcher = f] : f \in BOOLEAN }
    /\ tasks = <<>>
    /\ phase = "lib"
    /\ stats = ZeroStats
    /\ hist = [calls |-> 0, owed |-> {}, last |-> NoDetect]

\* shouldUpdate({pageId, lastEditedTime: the remote one, parentPageIds})
DetectShouldUpdate(pageId, parentPageIds) ==
    LET t == fetchPageData(pageId).let
    IN  /\ ShouldUpdateCall(pageId, t, parentPageIds, TRUE)
        /\ LET needs == ShouldUpdateAfterReload(pageId, t, parentPageIds, TRUE).needs
           IN  hist' = [calls |-> hist.calls + 1,
                        owed |-> IF needs THEN hist.owed \cup {formatId(pageId)}
                                 ELSE hist.owed,
                        last |-> [kind |-> "should", id |-> formatId(pageId),
                                  chain |-> parentPageIds, t |-> t, needs |-> needs,
                                  wasPending |-> formatId(pageId) \in pendingUpdates,
                                  upd0 |-> updatedChildPages]]

\* updateCache({pageId, data: the page as fetched now, parentPageIds})
DetectUpdateCache(pageId) ==
    /\ UpdateCacheCall(pageId, fetchPageData(pageId).let, ChainOf("chain", pageId))
    /\ hist' = [calls |-> hist.calls + 1,
                owed |-> hist.owed \ {formatId(pageId)},
                last |-> [NoDetect EXCEPT !.kind = "update", !.id = formatId(pageId),
                                          !.chain = ChainOf("chain", pageId),
                                          !.t = fetchPageData(pageId).let]]

NextDetect ==
    \/ \E pageId \in DetectIds : \E parentPageIds \in DetectChains(pageId) :
           DetectShouldUpdate(pageId, parentPageIds)
    \/ \E pageId \in DetectIds : DetectUpdateCache(pageId)

SpecDetect == InitDetect /\ [][NextDetect]_vars

\* C24: pendingUpdates holds exactly the ids for which shouldUpdate returned
\* true and updateCache has not been called since; shouldUpdate returns true
\* for an id that is pending, whatever the cache map and the timestamp are;
\* after updateCache the id is not pending.
C24_PendingUntilUpdated ==
    phase = "lib"
        => /\ pendingUpdates = hist.owed
           /\ (hist.last.kind = "should" /\ hist.last.wasPending)
                  => hist.last.needs /\ hist.last.id \in pendingUpdates
           /\ hist.last.kind = "update" => hist.last.id \notin pendingUpdates

\* shouldUpdate was called for a page that was pending although its record
\* held the timestamp of the call
C24_Witness ==
    /\ phase = "lib"
    /\ hist.last.kind = "should"
    /\ hist.last.wasPending
    /\ hist.last.needs
    /\ SameAsCached(cacheMem, hist.last.id, hist.last.t, hist.last.chain)
    /\ hist.owed # {}

\* the record with this id among the records of a children list itself: <<item>> or <<>>
DirectChild(children, id) ==
    IF \E i \in 1..Len(children) : children[i].id = id
    THEN <<children[CHOOSE i \in 1..Len(children) : children[i].id = id]>>
    ELSE <<>>

\* the record at the end of the parent-to-child path that the chain and the id
\* spell out in the cache tree: <<item>>, or <<>> when there is no such path
PathRecord(pages, id, chain) ==
    IF chain = <<>> \/ formatId(chain[1]) \notin DOMAIN pages THEN <<>>
    ELSE LET RECURSIVE walk(_, _)
             walk(parent, i) ==
                 IF i > Len(chain) THEN DirectChild(parent.children, id)
                 ELSE LET hop == DirectChild(parent.children, formatId(chain[i]))
                      IN  IF hop = <<>> THEN <<>> ELSE walk(hop[1], i + 1)
         IN  walk(pages[formatId(chain[1])], 2)

\* C25: a shouldUpdate call with a non-empty chain that is not a
\* parent-to-child path of the cache tree ending in a record of the page
\* returns true and leaves the page pending.
C25_BrokenChainMeansUpdate ==
    (/\ phase = "lib"
     /\ hist.last.kind = "should"
     /\ hist.last.chain # <<>>
     /\ PathRecord(cacheMem, hist.last.id, hist.last.chain) = <<>>)
        => hist.last.needs /\ hist.last.id \in pendingUpdates

\* the last call was a shouldUpdate for a page that was not pending, whose
\* record holds another timestamp than the call's and a digest, and whose
\* snapshot below cacheDir has that digest
TimestampMovedHashSame ==
    /\ phase = "lib"
    /\ hist.last.kind = "should"
    /\ ~hist.last.wasPending
    /\ LET rec == LookedUp(cacheMem, hist.last.id, hist.last.chain)
           cachedData == getCachedData(hist.last.id, hist.last.chain)
       IN  /\ rec # <<>>
           /\ rec[1].last_edited_time # hist.last.t
           /\ rec[1].content_hash # NoHash
           /\ cachedData # <<>>
           /\ calculateContentHash(PageObjectOf(cachedData[1])) = rec[1].content_hash

\* C26: when the remote last_edited_time differs from the recorded one, a
\* digest is recorded and the digest of the locally cached snapshot equals it,
\* shouldUpdate returns false and does not mark the page pending; for a
\* top-level page it has also run the children check: every recorded child
\* whose remote last_edited_time differs from its record is listed for the page.
C26_SameHashMeansCached ==
    TimestampMovedHashSame
        => /\ ~hist.last.needs
           /\ hist.last.id \notin pendingUpdates
           /\ (hist.last.chain = <<>> /\ cfg.hasFetcher)
                  => \A i \in 1..Len(cacheMem[hist.last.id].children) :
                         LET child == cacheMem[hist.last.id].children[i]
                         IN  fetchPageData(child.id).let # child.last_edited_time
                                 => Includes(getUpdatedChildPages(updatedChildPages,
                                                                  hist.last.id),
                                             child.id)

\* the edited top-level page P was taken for unchanged by its digest, and its
\* edited child C was listed
C26_Witness ==
    /\ TimestampMovedHashSame
    /\ hist.last.id = "P"
    /\ hist.last.chain = <<>>
    /\ ~hist.last.needs
    /\ hist.last.upd0 = NoUpdated
    /\ getUpdatedChildPages(updatedChildPages, "P") = <<"C">>

\* the list that updatedChildPages holds for a record
ListOf(item) == getUpdatedChildPages(updatedChildPages, item.id)

ListedIn(item, id) == \E k \in 1..Len(ListOf(item)) : ListOf(item)[k] = id

\* the remote last_edited_time of the page differs from the recorded one
RemoteMoved(item) == fetchPageData(item.id).let # item.last_edited_time

\* some record below the item is listed for its parent
RECURSIVE ListedBelow(_)
ListedBelow(item) ==
    \E i \in 1..Len(item.children) :
        ListedIn(item, item.children[i].id) \/ ListedBelow(item.children[i])

\* below the item, a record is listed for its parent exactly when its page
\* moved or a record below it is listed
RECURSIVE ListedWhenDue(_)
ListedWhenDue(item) ==
    \A i \in 1..Len(item.children) :
        /\ ListedIn(item, item.children[i].id)
               <=> (RemoteMoved(item.children[i]) \/ ListedBelow(item.children[i]))
        /\ ListedWhenDue(item.children[i])

\* the lists of the item and of the records below it hold ids of the direct
\* children of their key only, none of them twice
RECURSIVE ListsOfChildren(_)
ListsOfChildren(item) ==
    /\ \A k \in 1..Len(ListOf(item)) :
           /\ \E i \in 1..Len(item.children) : item.children[i].id = ListOf(item)[k]
           /\ \A j \in 1..Len(ListOf(item)) : ListOf(item)[j] = ListOf(item)[k] => j = k
    /\ \A i \in 1..Len(item.children) : ListsOfChildren(item.children[i])

\* the last call was a shouldUpdate of a top-level page that was not pending
\* and was found unchanged, by a cache service with a fetcher
ChildrenChecked ==
    /\ phase = "lib"
    /\ cfg.hasFetcher
    /\ hist.last.kind = "should"
    /\ hist.last.chain = <<>>
    /\ ~hist.last.wasPending
    /\ ~hist.last.needs
    /\ hist.last.id \in DOMAIN cacheMem

PartialShapes == {"chain", "fan"}

PartialConfigs ==
    { [root |-> r, enableCache |-> TRUE, recursive |-> TRUE, includeImages |-> TRUE,
       hasFetcher |-> TRUE, pages |-> <<r>>, concurrency |-> 2] : r \in {"P", "p"} }

\* the snapshots of an earlier backup, and copies of some of them below cacheDir
FilesWithMirror(sh, mirrored) ==
    LET saved == PreviousFiles(sh)
        placed == { CachePath(page, ChainOf(sh, page)) : page \in mirrored }
    IN  [q \in DOMAIN saved \cup placed |->
            IF q \in DOMAIN saved THEN saved[q]
            ELSE [id |-> q[Len(q)], let |-> 1, ver |-> 0, lost |-> {}]]

InitPartial ==
    /\ shape \in PartialShapes
    /\ cacheDisk = [exists |-> TRUE,
                    pages |-> AsRaw(PreviousCache(shape, AllPages(shape, RootsOf(shape))))]
    /\ \E edited \in SUBSET PagesOf(shape) :
           /\ Cardinality(edited) <= MaxEdits
           /\ remote = [q \in PageIds |-> [let |-> IF q \in edited THEN 2 ELSE 1, ver |-> 0]]
    /\ \E mirrored \in SUBSET PagesOf(shape) :
           /\ "P" \in mirrored
           /\ files = FilesWithMirror(shape, mirrored)
    /\ cacheMem = EmptyPages
    /\ pendingUpdates = {}
    /\ updatedChildPages = NoUpdated
    /\ resourcePageMap = NoOwners
    /\ cfg = NoConfig
    /\ tasks = <<>>
    /\ phase = "idle"
    /\ stats = ZeroStats
    /\ hist = [faults |-> 0, cache0 |-> EmptyPages]

NextPartial ==
    \/ \E config \in PartialConfigs : StartBackup(config)
    \/ RootsDone
    \/ \E i \in 1..Len(tasks) : InitCacheMapRead(i)
    \/ \E i \in 1..Len(tasks) : ShouldUpdate(i)
    \/ \E i \in 1..Len(tasks) : PartialNext(i)
    \/ \E i \in 1..Len(tasks) : Save(i)
    \/ \E i \in 1..Len(tasks) : SaveCacheMapStringify(i)
    \/ \E i \in 1..Len(tasks) : SaveCacheMapWrite(i)
    \/ \E i \in 1..Len(tasks) : BatchShouldUpdate(i)
    \/ \E i \in 1..Len(tasks) : ShouldUpdateInBatch(i)
    \/ \E i \in 1..Len(tasks) : BatchShouldUpdateDone(i)
    \/ \E i \in 1..Len(tasks) : ChunkDone(i)
    \/ \E i \in 1..Len(tasks) : FetchPageDataFails(i)
    \/ \E i \in 1..Len(tasks) :
           \E outcome \in FetchFaults(tasks[i].page) : FetchFullPageDataFails(i, outcome)
    \/ \E i \in 1..Len(tasks) : SavePageDataFails(i)
    \/ \E i \in 1..Len(tasks) : \E failing \in SUBSET Resources : DownloadFails(i, failing)
    \/ \E i \in 1..Len(tasks) : \E failed \in SUBSET PageIds : PrefetchFails(i, failed)

SpecPartial == InitPartial /\ [][NextPartial]_vars

\* the processPage call took the partial update (lines 161-176)
InPartialUpdate(i) ==
    /\ tasks[i].kind = "page"
    /\ ~tasks[i].needs
    /\ tasks[i].flagged # <<>>

\* the calls that call i has made so far, in call order
CallsOf(i) == SelectSeq([j \in 1..Len(tasks) |-> j], LAMBDA j : tasks[j].parent = i)

\* the page's record carries the timestamp and the digest it had when the run began
OwnRecordKept(i) ==
    LET now == LookedUp(cacheMem, tasks[i].page, tasks[i].chain)
        before == LookedUp(hist.cache0, tasks[i].page, tasks[i].chain)
    IN  /\ now # <<>>
        /\ before # <<>>
        /\ now[1].last_edited_time = before[1].last_edited_time
        /\ now[1].content_hash = before[1].content_hash

\* C28: in a partial update of P the processPage calls made so far are the
\* first ids of the list UpdatedChildrenIndex[P] held when processPage read
\* it, one call per id in list order, each with the chain of P followed by P
\* and not as a root, and each call but the last has returned; when
\* processPage(P) has returned every id of the list has been called and has
\* returned, the list of P is gone, and the call has fetched no content,
\* written no snapshot of P and no cache record of P.
C28_PartialUpdateCallsFlaggedInOrder ==
    phase = "running"
        => \A i \in 1..Len(tasks) :
               InPartialUpdate(i)
                   => LET calls == CallsOf(i)
                          me == tasks[i]
                      IN  /\ Len(calls) <= Len(me.flagged)
                          /\ \A k \in 1..Len(calls) :
                                 /\ tasks[calls[k]].kind = "page"
                                 /\ tasks[calls[k]].page = me.flagged[k]
                                 /\ tasks[calls[k]].chain = me.chain \o <<me.page>>
                                 /\ ~tasks[calls[k]].isRoot
                                 /\ k < Len(calls) => Finished(calls[k])
                          /\ ~me.fetched /\ ~me.saved /\ ~me.cached
                          /\ files[SavePath(me.page, me.chain)]
                                 = PreviousFiles(shape)[SavePath(me.page, me.chain)]
                          /\ OwnRecordKept(i)
                          /\ Finished(i)
                                 => /\ Len(calls) = Len(me.flagged)
                                    /\ \A k \in 1..Len(calls) : Finished(calls[k])
                                    /\ formatId(me.page) \notin DOMAIN updatedChildPages

\* a partial update of two flagged children has returned, and one of the two
\* children was written again
C28_Witness ==
    /\ phase = "running"
    /\ \E i \in 1..Len(tasks) :
           /\ InPartialUpdate(i)
           /\ Finished(i)
           /\ Len(tasks[i].flagged) = 2
           /\ \E j \in 1..Len(tasks) : tasks[j].parent = i /\ tasks[j].saved

(***************************************************************************)
(* fetchFullPageData, one call of fetchBlockChildren after the other.  The *)
(* remote API lists the children of a block by its id; the id of a         *)
(* child_page block is the id of the page, so that listing gives the       *)
(* blocks of the child page.  hist holds the call: the page, the listed    *)
(* blocks (in call order), the blocks whose listing threw and was caught,  *)
(* and todo, the blocks that processChildren has still to visit, the       *)
(* children of a block before its later siblings.                          *)
(***************************************************************************)
ListingShapes == Shapes \cup FaultShapes

\* every block of the remote tree, page by page
RECURSIVE BlocksOfPages(_, _)
BlocksOfPages(sh, pages) ==
    IF pages = <<>> THEN <<>>
    ELSE BlocksOf(sh, Head(pages)) \o BlocksOfPages(sh, Tail(pages))

RECURSIVE ChildrenOfBlock(_, _)
ChildrenOfBlock(blocks, blockId) ==
    IF blocks = <<>> THEN <<>>
    ELSE IF Head(blocks).id = blockId THEN Head(blocks).children
    ELSE ChildrenOfBlock(Head(blocks).children, blockId)
         \o ChildrenOfBlock(Tail(blocks), blockId)

\* NotionApi.getBlockChildren: client.blocks.children.list({ block_id })
getBlockChildren(blockId) ==
    IF blockId \in RawIds THEN BlocksOf(shape, formatId(blockId))
    ELSE ChildrenOfBlock(BlocksOfPages(shape, AllPages(shape, RootsOf(shape))), blockId)

\* fetchBlockChildren (lines 388-403): every listed block gets children: []
\* when it has children and none otherwise
fetchBlockChildren(blockId) ==
    [i \in 1..Len(getBlockChildren(blockId)) |->
        [getBlockChildren(blockId)[i] EXCEPT !.children = <<>>]]

\* processChildren, line 450: the blocks whose children are listed
Visited(blocks) == SelectSeq(blocks, LAMBDA b : b.has_children)

\* the block tree that the call returns, given the blocks whose listing succeeded
RECURSIVE ReturnedBlocks(_, _)
ReturnedBlocks(blocks, listedIds) ==
    [i \in 1..Len(blocks) |->
        [blocks[i] EXCEPT !.children =
            IF blocks[i].id \in listedIds
            THEN ReturnedBlocks(fetchBlockChildren(blocks[i].id), listedIds)
            ELSE <<>>]]

NoListing == [pc |-> "idle", page |-> "P", todo |-> <<>>, listed |-> <<>>, caught |-> {},
              tree |-> <<>>, calls |-> 0, faults |-> 0]

InitListing ==
    /\ shape \in ListingShapes
    /\ remote = [q \in PageIds |-> [let |-> 1, ver |-> 0]]
    /\ files = NoFiles
    /\ cacheDisk = NoFileContent
    /\ cacheMem = EmptyPages
    /\ pendingUpdates = {}
    /\ updatedChildPages = NoUpdated
    /\ resourcePageMap = NoOwners
    /\ cfg = NoConfig
    /\ tasks = <<>>
    /\ phase = "lib"
    /\ stats = ZeroStats
    /\ hist = NoListing

ListedIds == { hist.listed[k].id : k \in 1..Len(hist.listed) }

\* processChildren has returned when nothing is left to visit (lines 461-465)
AfterListing(h) ==
    IF h.todo = <<>>
    THEN [h EXCEPT !.pc = "returned",
                   !.tree = ReturnedBlocks(fetchBlockChildren(h.page),
                                           { h.listed[k].id : k \in 1..Len(h.listed) })]
    ELSE h

\* lines 438-442: the metadata and the page's own blocks have arrived
FetchFullPageDataCall(pageId) ==
    /\ phase = "lib"
    /\ hist.pc \in {"idle", "returned", "threw"}
    /\ hist.calls < MaxCalls
    /\ formatId(pageId) \in PagesOf(shape)
    /\ hist' = AfterListing([NoListing EXCEPT !.pc = "listing", !.page = pageId,
                                              !.todo = Visited(fetchBlockChildren(pageId)),
                                              !.calls = hist.calls + 1,
                                              !.faults = hist.faults])
    /\ UNCHANGED <<shape, remote, files, cacheDisk, cacheMem, pendingUpdates,
                   updatedChildPages, resourcePageMap, cfg, tasks, phase, stats>>

\* lines 438-442, 466-470: the metadata or the listing of the page's own blocks fails
FetchFullPageDataThrows(pageId) ==
    /\ phase = "lib"
    /\ hist.pc \in {"idle", "returned", "threw"}
    /\ hist.calls < MaxCalls
    /\ hist.faults < MaxFaults
    /\ formatId(pageId) \in PagesOf(shape)
    /\ hist' = [NoListing EXCEPT !.pc = "threw", !.page = pageId,
                                 !.calls = hist.calls + 1, !.faults = hist.faults + 1]
    /\ UNCHANGED <<shape, remote, files, cacheDisk, cacheMem, pendingUpdates,
                   updatedChildPages, resourcePageMap, cfg, tasks, phase, stats>>

\* lines 450-454: the children of the next block with has_children are listed
\* and visited before the block's later siblings
ListChildren ==
    /\ phase = "lib"
    /\ hist.pc = "listing"
    /\ hist.todo # <<>>
    /\ LET block == Head(hist.todo)
       IN  hist' = AfterListing([hist EXCEPT
                       !.listed = Append(@, block),
                       !.todo = Visited(fetchBlockChildren(block.id)) \o Tail(hist.todo)])
    /\ UNCHANGED <<shape, remote, files, cacheDisk, cacheMem, pendingUpdates,
                   updatedChildPages, resourcePageMap, cfg, tasks, phase, stats>>

\* lines 455-459: the listing throws; the block is pushed as it is
ListChildrenFails ==
    /\ phase = "lib"
    /\ hist.pc = "listing"
    /\ hist.todo # <<>>
    /\ hist.faults < MaxFaults
    /\ hist' = AfterListing([hist EXCEPT !.caught = @ \cup {Head(hist.todo).id},
                                         !.todo = Tail(hist.todo),
                                         !.faults = @ + 1])
    /\ UNCHANGED <<shape, remote, files, cacheDisk, cacheMem, pendingUpdates,
                   updatedChildPages, resourcePageMap, cfg, tasks, phase, stats>>

NextListing ==
    \/ \E pageId \in RawIds : FetchFullPageDataCall(pageId)
    \/ \E pageId \in RawIds : FetchFullPageDataThrows(pageId)
    \/ ListChildren
    \/ ListChildrenFails

SpecListing == InitListing /\ [][NextListing]_vars

\* the blocks of a returned tree that lie below a child_page block
RECURSIVE BelowChildPages(_)
BelowChildPages(blocks) ==
    IF blocks = <<>> THEN <<>>
    ELSE (IF isChildPage(Head(blocks)) THEN Head(blocks).children
          ELSE BelowChildPages(Head(blocks).children))
         \o BelowChildPages(Tail(blocks))

\* C29: fetchFullPageData never lists the children of a block of type
\* child_page, and the block tree it returns holds no block below a
\* child_page block.
C29_NoListingBelowChildPage ==
    phase = "lib"
        => /\ \A k \in 1..Len(hist.listed) : ~isChildPage(hist.listed[k])
           /\ hist.pc = "returned" => BelowChildPages(hist.tree) = <<>>

(***************************************************************************)
(* Runs of the backup command on the tree whose child pages all lie inside *)
(* a block of the root page                                                *)
(***************************************************************************)
InitOwners ==
    /\ shape = "deep"
    /\ remote = [q \in PageIds |-> [let |-> 1, ver |-> 0]]
    /\ files = NoFiles
    /\ cacheDisk = NoFileContent
    /\ cacheMem = EmptyPages
    /\ pendingUpdates = {}
    /\ updatedChildPages = NoUpdated
    /\ resourcePageMap = NoOwners
    /\ cfg = NoConfig
    /\ tasks = <<>>
    /\ phase = "idle"
    /\ stats = ZeroStats
    /\ hist = [run |-> 0, cache0 |-> EmptyPages, files0 |-> {}, fresh |-> FALSE,
               edited |-> FALSE, edits |-> 0, last |-> NoRun, allCached |-> TRUE]

SpecOwners == InitOwners /\ [][Next]_vars

\* the resources of the pages of the tree
ResourcesOfTree == UNION { ImagesIn(BlocksOf(shape, page)) : page \in PagesOf(shape) }

\* processPage of the root is past its full fetch and the pre-pass (lines 186-193)
RootPastPrePass ==
    /\ phase = "running"
    /\ cfg.includeImages
    /\ tasks[1].kind = "page"
    /\ tasks[1].isRoot
    /\ tasks[1].fetched

\* C30: once the root has been fetched in full with resource inclusion
\* enabled, that is before its snapshot is written, before any download and
\* before any child page is dispatched, every resource of every page of the
\* tree has an owner, and from then on resourcePageMap stays what the
\* pre-pass made of it.
C30_OwnersFixedByPrePass ==
    RootPastPrePass
        => /\ ResourcesOfTree \subseteq DOMAIN resourcePageMap
           /\ resourcePageMap = buildResourceMap(tasks[1].page, NoOwners).map

(***************************************************************************)
(* Properties of the resource ownership map                                *)
(***************************************************************************)
\* a step of a run leaves every recorded owner as it is
OwnersKept ==
    (phase = "running" /\ phase' = "running")
        => \A r \in DOMAIN resourcePageMap :
               r \in DOMAIN resourcePageMap' /\ resourcePageMap'[r] = resourcePageMap[r]

\* the block ids that step 6 of the call got from extractImageUrls
ReturnedImages(i) == { tasks[i].results[k].blockId : k \in 1..Len(tasks[i].results) }

\* every call past step 6 got the images of its own blocks (child pages left
\* out) whose recorded owner is the page of the call, each once
ReturnedAreOwned ==
    \A i \in 1..Len(tasks) :
        PastDownloads(i)
            => /\ ReturnedImages(i)
                      = { r \in ImagesIn(FetchedBlocks(tasks[i].full)) :
                              r \in DOMAIN resourcePageMap
                              /\ resourcePageMap[r] = tasks[i].page }
               /\ Len(tasks[i].results) = Cardinality(ReturnedImages(i))

\* C31: once a resource id is mapped to a page no later step of the run
\* changes the mapping, and extractImageUrls(blocks, pageId) returns exactly
\* the image blocks reachable from blocks without passing through a
\* child_page block whose recorded owner is pageId.
C31_FirstWriterWins == [][OwnersKept /\ ReturnedAreOwned']_vars

\* a page past its downloads holds a resource that another page owns
C31_Witness ==
    /\ phase = "running"
    /\ \E i \in 1..Len(tasks) :
           /\ PastDownloads(i)
           /\ \E r \in ImagesIn(FetchedBlocks(tasks[i].full)) :
                  r \in DOMAIN resourcePageMap /\ resourcePageMap[r] # tasks[i].page

(***************************************************************************)
(* updateCache and the shouldUpdate that follows it.  On a service over an *)
(* empty output directory updateCache is called for the pages of the tree  *)
(* P > C > G, with any time and with a chain of ancestors of the page, in  *)
(* their order, that may leave ancestors out (a page that was moved up, a  *)
(* page configured as a root); after a call shouldUpdate may be called     *)
(* with the arguments of that call.  hist holds the last call, the map     *)
(* before it and, for shouldUpdate, the result.                            *)
(***************************************************************************)
UpsertChains(pageId) ==
    IF pageId = "G" THEN {<<"P", "C">>, <<"P">>, <<"C">>}
    ELSE IF pageId = "C" THEN {<<"P">>, <<>>}
    ELSE {<<>>}

NoUpsert == [calls |-> 0, kind |-> "none", id |-> "P", chain |-> <<>>, t |-> 0,
             before |-> EmptyPages, needs |-> FALSE]

InitUpsert ==
    /\ shape = "chain"
    /\ remote = [q \in PageIds |-> [let |-> 1, ver |-> 0]]
    /\ files = NoFiles
    /\ cacheDisk = [exists |-> TRUE, pages |-> EmptyPages]
    /\ cacheMem = EmptyPages
    /\ pendingUpdates = {}
    /\ updatedChildPages = NoUpdated
    /\ resourcePageMap = NoOwners
    /\ cfg = [NoConfig EXCEPT !.enableCache = TRUE]
    /\ tasks = <<>>
    /\ phase = "lib"
    /\ stats = ZeroStats
    /\ hist = NoUpsert

\* updateCache({pageId, data, parentPageIds}) with data.last_edited_time = t
UpsertCall(pageId, lastEditedTime, parentPageIds) ==
    /\ UpdateCacheCall(pageId, lastEditedTime, parentPageIds)
    /\ hist' = [calls |-> hist.calls + 1, kind |-> "update", id |-> pageId,
                chain |-> parentPageIds, t |-> lastEditedTime, before |-> cacheMem,
                needs |-> FALSE]

\* shouldUpdate with the arguments of the updateCache that has just completed
ShouldUpdateAfterUpsert ==
    /\ hist.kind = "update"
    /\ ShouldUpdateCall(hist.id, hist.t, hist.chain, TRUE)
    /\ hist' = [hist EXCEPT !.calls = @ + 1, !.kind = "should", !.before = cacheMem,
                            !.needs = ShouldUpdateAfterReload(hist.id, hist.t,
                                                              hist.chain, TRUE).needs]

NextUpsert ==
    \/ \E pageId \in CallIds, t \in CallTimes :
           \E parentPageIds \in UpsertChains(pageId) : UpsertCall(pageId, t, parentPageIds)
    \/ ShouldUpdateAfterUpsert

SpecUpsert == InitUpsert /\ [][NextUpsert]_vars

\* every record of the cache tree with the ids from the top-level key down to it
RECURSIVE RecordsBelow(_, _)
RecordsBelow(children, path) ==
    UNION { {[path |-> Append(path, children[i].id), item |-> children[i]]}
            \cup RecordsBelow(children[i].children, Append(path, children[i].id))
            : i \in 1..Len(children) }

RecordsOf(pages) ==
    UNION { {[path |-> <<k>>, item |-> pages[k]]} \cup RecordsBelow(pages[k].children, <<k>>)
            : k \in DOMAIN pages }

PathsOf(pages) == { rec.path : rec \in RecordsOf(pages) }

ChildIdsOf(item) == [i \in 1..Len(item.children) |-> item.children[i].id]

IsPrefix(a, b) == Len(a) <= Len(b) /\ SubSeq(b, 1, Len(a)) = a

\* the path that updateCache writes, and the paths of the ancestors
TargetPath == FormatChain(hist.chain) \o <<formatId(hist.id)>>

AncestorPaths == { SubSeq(TargetPath, 1, n) : n \in 1..(Len(TargetPath) - 1) }

\* C32: updateCache sets the timestamp and the digest of the record at the
\* end of the chain, creating it when absent, and adds a record without
\* timestamp, digest and children for every ancestor of the chain that is
\* missing; every record there was is still at its place, with its children
\* in their order before any added one, and every record but the target has
\* the timestamp and the digest it had.
C32_UpdateCacheFrame ==
    (phase = "lib" /\ hist.kind = "update")
        => LET was == RecordsOf(hist.before)
               now == RecordsOf(cacheMem)
           IN  /\ PathsOf(cacheMem) = PathsOf(hist.before) \cup AncestorPaths \cup {TargetPath}
               /\ \A a \in was :
                      \E b \in now :
                          /\ b.path = a.path
                          /\ IsPrefix(ChildIdsOf(a.item), ChildIdsOf(b.item))
                          /\ a.path # TargetPath
                                 => /\ b.item.last_edited_time = a.item.last_edited_time
                                    /\ b.item.content_hash = a.item.content_hash
               /\ \A b \in now :
                      /\ b.path = TargetPath
                             => /\ b.item.last_edited_time = hist.t
                                /\ b.item.content_hash # NoHash
                      /\ (b.path \in AncestorPaths \ PathsOf(hist.before))
                             => /\ b.item.last_edited_time = 0
                                /\ b.item.content_hash = NoHash
               /\ \A b \in now :
                      b.path \notin PathsOf(hist.before) /\ b.path = TargetPath
                          => b.item.children = <<>>

\* updateCache added placeholders for two missing ancestors beside records
\* that were there before
C32_Witness ==
    /\ phase = "lib"
    /\ hist.kind = "update"
    /\ Len(hist.chain) = 2
    /\ AncestorPaths \cap PathsOf(hist.before) = {}
    /\ PathsOf(hist.before) # {}

\* C33: shouldUpdate called with the arguments of the updateCache that has
\* just completed, for a page with ancestors, returns false.
C33_UpdatedMeansCached ==
    (phase = "lib" /\ hist.kind = "should" /\ hist.chain # <<>>) => ~hist.needs

\* C34: after savePageData(pageId, data, chain) has succeeded,
\* getCachedData(pageId, chain) returns that snapshot and not null.
C34_SavedSnapshotIsRead ==
    \A i \in 1..Len(tasks) :
        (tasks[i].kind = "page" /\ tasks[i].saved)
            => getCachedData(tasks[i].page, tasks[i].chain) = <<tasks[i].full>>

\* C35: within one run no page is persisted twice: savePageData is called at
\* most once for a page id, with the cache enabled or disabled.
C35_PersistedAtMostOnce ==
    \A p \in DOMAIN stats.saves : stats.saves[p] <= 1

(***************************************************************************)
(* fetchBlockChildren, attempt by attempt (services/coordinator.ts         *)
(* 388-431).  An answer of the remote listing is a list, a value that is   *)
(* no array, or an error; the message of an error is a sequence of words   *)
(* and includes(message, word) is String.prototype.includes for a word.    *)
(***************************************************************************)
ErrorMessages ==
    {<<"fetch", "failed">>, <<"network", "timeout">>, <<"rate", "limited">>,
     <<"object", "not", "found">>}

includes(message, word) == \E k \in 1..Len(message) : message[k] = word

NoAnswer == [kind |-> "none", list |-> <<>>, msg |-> <<>>]
ListAnswer(list) == [kind |-> "list", list |-> list, msg |-> <<>>]
NotArrayAnswer == [kind |-> "notArray", list |-> <<>>, msg |-> <<>>]
ErrorAnswer(message) == [kind |-> "error", list |-> <<>>, msg |-> message]

\* a retry after every error
retryAlways(errorMessage) == TRUE

\* line 417: errorMessage.includes('fetch') || errorMessage.includes('network')
retryWanted(errorMessage) == includes(errorMessage, "fetch") \/ includes(errorMessage, "network")

\* lines 398-401, 422-425: children: has_children ? [] : undefined
processedChildren(children) ==
    [i \in 1..Len(children) |-> [children[i] EXCEPT !.children = <<>>]]

ListedBlockIds == RawIds \cup {"T"}

NoAttempt == [pc |-> "idle", blockId |-> "P", attempts |-> 0, first |-> NoAnswer,
              second |-> NoAnswer, out |-> <<>>, err |-> <<>>, calls |-> 0]

InitRetry ==
    /\ shape \in ListingShapes
    /\ remote = [q \in PageIds |-> [let |-> 1, ver |-> 0]]
    /\ files = NoFiles
    /\ cacheDisk = NoFileContent
    /\ cacheMem = EmptyPages
    /\ pendingUpdates = {}
    /\ updatedChildPages = NoUpdated
    /\ resourcePageMap = NoOwners
    /\ cfg = NoConfig
    /\ tasks = <<>>
    /\ phase = "lib"
    /\ stats = ZeroStats
    /\ hist = NoAttempt

\* line 391: the call awaits this.notionApi.getBlockChildren({ blockId })
FetchBlockChildrenCall(blockId) ==
    /\ phase = "lib"
    /\ hist.pc \in {"idle", "returned", "threw"}
    /\ hist.calls < MaxCalls
    /\ hist' = [NoAttempt EXCEPT !.pc = "first", !.blockId = blockId, !.attempts = 1,
                                 !.calls = hist.calls + 1]
    /\ UNCHANGED <<shape, remote, files, cacheDisk, cacheMem, pendingUpdates,
                   updatedChildPages, resourcePageMap, cfg, tasks, phase, stats>>

\* lines 391-405: the first attempt answers with a list
FirstAttemptReturns ==
    /\ phase = "lib"
    /\ hist.pc = "first"
    /\ LET children == getBlockChildren(hist.blockId)
       IN  hist' = [hist EXCEPT !.first = ListAnswer(children), !.pc = "returned",
                                !.out = processedChildren(children)]
    /\ UNCHANGED <<shape, remote, files, cacheDisk, cacheMem, pendingUpdates,
                   updatedChildPages, resourcePageMap, cfg, tasks, phase, stats>>

\* lines 393-396: the first answer is no array; [] is returned
FirstAttemptNotArray ==
    /\ phase = "lib"
    /\ hist.pc = "first"
    /\ hist' = [hist EXCEPT !.first = NotArrayAnswer, !.pc = "returned", !.out = <<>>]
    /\ UNCHANGED <<shape, remote, files, cacheDisk, cacheMem, pendingUpdates,
                   updatedChildPages, resourcePageMap, cfg, tasks, phase, stats>>

\* lines 406-421, 433: the first attempt throws; after 2000 ms the listing is
\* called again when the message asks for it, otherwise the error is thrown
FirstAttemptThrows(message) ==
    /\ phase = "lib"
    /\ hist.pc = "first"
    /\ hist' = IF retryWanted(message)
               THEN [hist EXCEPT !.first = ErrorAnswer(message), !.pc = "second",
                                 !.attempts = 2]
               ELSE [hist EXCEPT !.first = ErrorAnswer(message), !.pc = "threw",
                                 !.err = message]
    /\ UNCHANGED <<shape, remote, files, cacheDisk, cacheMem, pendingUpdates,
                   updatedChildPages, resourcePageMap, cfg, tasks, phase, stats>>

\* lines 421-427: the second attempt answers with a list
SecondAttemptReturns ==
    /\ phase = "lib"
    /\ hist.pc = "second"
    /\ LET retryChildren == getBlockChildren(hist.blockId)
       IN  hist' = [hist EXCEPT !.second = ListAnswer(retryChildren), !.pc = "returned",
                                !.out = processedChildren(retryChildren)]
    /\ UNCHANGED <<shape, remote, files, cacheDisk, cacheMem, pendingUpdates,
                   updatedChildPages, resourcePageMap, cfg, tasks, phase, stats>>

\* lines 422, 428, 433: the second answer is no array; throw error
SecondAttemptNotArray ==
    /\ phase = "lib"
    /\ hist.pc = "second"
    /\ hist' = [hist EXCEPT !.second = NotArrayAnswer, !.pc = "threw",
                            !.err = hist.first.msg]
    /\ UNCHANGED <<shape, remote, files, cacheDisk, cacheMem, pendingUpdates,
                   updatedChildPages, resourcePageMap, cfg, tasks, phase, stats>>

\* lines 429-433: the second attempt throws; retryError is logged, throw error
SecondAttemptThrows(message) ==
    /\ phase = "lib"
    /\ hist.pc = "second"
    /\ hist' = [hist EXCEPT !.second = ErrorAnswer(message), !.pc = "threw",
                            !.err = hist.first.msg]
    /\ UNCHANGED <<shape, remote, files, cacheDisk, cacheMem, pendingUpdates,
                   updatedChildPages, resourcePageMap, cfg, tasks, phase, stats>>

NextRetry ==
    \/ \E blockId \in ListedBlockIds : FetchBlockChildrenCall(blockId)
    \/ FirstAttemptReturns
    \/ FirstAttemptNotArray
    \/ \E message \in ErrorMessages : FirstAttemptThrows(message)
    \/ SecondAttemptReturns
    \/ SecondAttemptNotArray
    \/ \E message \in ErrorMessages : SecondAttemptThrows(message)

SpecRetry == InitRetry /\ [][NextRetry]_vars

\* C36: fetchBlockChildren calls the remote listing at most twice; the second
\* attempt follows only a first error whose message holds 'fetch' or
\* 'network'; when the second attempt answers with a list, that list is
\* returned, otherwise the error of the first attempt is thrown.
C36_OneRetryOnNetworkError ==
    /\ hist.attempts <= 2
    /\ hist.attempts = 2
        => /\ hist.first.kind = "error"
           /\ \E k \in 1..Len(hist.first.msg) : hist.first.msg[k] \in {"fetch", "network"}
    /\ (hist.attempts = 2 /\ hist.pc \in {"returned", "threw"})
        => IF hist.second.kind = "list"
           THEN /\ hist.pc = "returned"
                /\ Len(hist.out) = Len(hist.second.list)
                /\ \A k \in 1..Len(hist.out) : hist.out[k].id = hist.second.list[k].id
           ELSE hist.pc = "threw" /\ hist.err = hist.first.msg

C36_Witness ==
    /\ hist.pc = "returned"
    /\ hist.attempts = 2
    /\ hist.out # <<>>
    /\ hist.calls = 2

(***************************************************************************)
(* NotionFileDownloader.saveFile (services/file-downloader.ts 100-245),    *)
(* one request at a time.  The server is free: the size request answers    *)
(* with a content-length or fails, a chunk request delivers any number of  *)
(* bytes and then ends or fails.                                           *)
(***************************************************************************)
RetryCounts == 0..MaxRetry
ChunkSizes == 1..MaxChunk

NoDownload ==
    [pc |-> "idle", result |-> "none", retryCount |-> 0, chunkSize |-> 1, totalSize |-> 0,
     downloadedSize |-> 0, currentRetry |-> 0, start |-> 0, end |-> 0,
     dl |-> "none", sized |-> FALSE, received |-> 0, failedInARow |-> 0,
     ended |-> FALSE, calls |-> 0]

\* a counter that a successful request leaves as it is
currentRetryKept(currentRetry) == currentRetry

\* line 168: currentRetry = 0
currentRetryReset(currentRetry) == 0

\* lines 114-118, 181, 233-237: the test of the while loop; the next request
\* with its Range header, or writeStream.end() and success
NextIteration(h) ==
    IF h.downloadedSize < h.totalSize /\ h.currentRetry < h.retryCount
    THEN [h EXCEPT !.pc = "request", !.start = h.downloadedSize,
                   !.end = Min(h.downloadedSize + h.chunkSize - 1, h.totalSize - 1)]
    ELSE [h EXCEPT !.pc = "settled", !.dl = "returned", !.result = "success"]

InitDownload ==
    /\ shape = "single"
    /\ remote = [q \in PageIds |-> [let |-> 1, ver |-> 0]]
    /\ files = NoFiles
    /\ cacheDisk = NoFileContent
    /\ cacheMem = EmptyPages
    /\ pendingUpdates = {}
    /\ updatedChildPages = NoUpdated
    /\ resourcePageMap = NoOwners
    /\ cfg = NoConfig
    /\ tasks = <<>>
    /\ phase = "lib"
    /\ stats = ZeroStats
    /\ hist = NoDownload

\* lines 201-217, 107-113: saveFile has made the directory and
\* downloadFileWithChunks awaits getFileSize
SaveFileCall(retryCount, chunkSize) ==
    /\ phase = "lib"
    /\ hist.pc \in {"idle", "settled"}
    /\ hist.calls < MaxCalls
    /\ hist' = [NoDownload EXCEPT !.pc = "size", !.retryCount = retryCount,
                                  !.chunkSize = chunkSize, !.calls = hist.calls + 1]
    /\ UNCHANGED <<shape, remote, files, cacheDisk, cacheMem, pendingUpdates,
                   updatedChildPages, resourcePageMap, cfg, tasks, phase, stats>>

\* lines 206-211, 238-244: generateFileName or ensureDir throws
SaveFileThrowsEarly(retryCount, chunkSize) ==
    /\ phase = "lib"
    /\ hist.pc \in {"idle", "settled"}
    /\ hist.calls < MaxCalls
    /\ hist' = [NoDownload EXCEPT !.pc = "settled", !.result = "failure",
                                  !.retryCount = retryCount, !.chunkSize = chunkSize,
                                  !.calls = hist.calls + 1]
    /\ UNCHANGED <<shape, remote, files, cacheDisk, cacheMem, pendingUpdates,
                   updatedChildPages, resourcePageMap, cfg, tasks, phase, stats>>

\* lines 73-88, 113-120: the content-length is known, the loop starts
GetFileSizeReturns(totalSize) ==
    /\ phase = "lib"
    /\ hist.pc = "size"
    /\ hist' = NextIteration([hist EXCEPT !.totalSize = totalSize, !.sized = TRUE])
    /\ UNCHANGED <<shape, remote, files, cacheDisk, cacheMem, pendingUpdates,
                   updatedChildPages, resourcePageMap, cfg, tasks, phase, stats>>

\* lines 75-84, 89, 238-244: the size request is answered without status 200 or
\* without content-length, or fails
GetFileSizeFails ==
    /\ phase = "lib"
    /\ hist.pc = "size"
    /\ hist' = [hist EXCEPT !.pc = "settled", !.dl = "threw", !.result = "failure"]
    /\ UNCHANGED <<shape, remote, files, cacheDisk, cacheMem, pendingUpdates,
                   updatedChildPages, resourcePageMap, cfg, tasks, phase, stats>>

\* lines 120-168: the response delivers bytes and ends
ChunkRequestEnds(bytes) ==
    /\ phase = "lib"
    /\ hist.pc = "request"
    /\ hist' = NextIteration([hist EXCEPT !.downloadedSize = @ + bytes,
                                          !.currentRetry = currentRetryReset(@),
                                          !.received = @ + bytes,
                                          !.failedInARow = 0,
                                          !.ended = TRUE])
    /\ UNCHANGED <<shape, remote, files, cacheDisk, cacheMem, pendingUpdates,
                   updatedChildPages, resourcePageMap, cfg, tasks, phase, stats>>

\* lines 126-129, 162-165, 169-176: a status other than 200 and 206, or an
\* error of the request or of the response after it delivered bytes
ChunkRequestFails(bytes) ==
    /\ phase = "lib"
    /\ hist.pc = "request"
    /\ LET h == [hist EXCEPT !.downloadedSize = @ + bytes,
                             !.currentRetry = @ + 1,
                             !.received = @ + bytes,
                             !.failedInARow = @ + 1]
       IN  hist' = IF h.currentRetry >= h.retryCount
                   THEN [h EXCEPT !.pc = "settled", !.dl = "threw", !.result = "failure"]
                   ELSE NextIteration(h)
    /\ UNCHANGED <<shape, remote, files, cacheDisk, cacheMem, pendingUpdates,
                   updatedChildPages, resourcePageMap, cfg, tasks, phase, stats>>

NextDownload ==
    \/ \E retryCount \in RetryCounts, chunkSize \in ChunkSizes :
            SaveFileCall(retryCount, chunkSize)
    \/ \E retryCount \in RetryCounts, chunkSize \in ChunkSizes :
            SaveFileThrowsEarly(retryCount, chunkSize)
    \/ \E totalSize \in 0..MaxSize : GetFileSizeReturns(totalSize)
    \/ GetFileSizeFails
    \/ \E bytes \in 0..MaxChunk : ChunkRequestEnds(bytes)
    \/ \E bytes \in 0..MaxChunk : ChunkRequestFails(bytes)

SpecDownload == InitDownload /\ [][NextDownload]_vars

\* the event loop runs every callback that is due and the server settles
\* every request
SpecDownloadFair == SpecDownload /\ WF_vars(NextDownload)

C38_DownloadTerminates == (hist.pc = "request") ~> (hist.pc = "settled")

\* C39: saveFile returns success only if all totalSize bytes have been
\* received, for every retryCount and chunkSize.
C39_SuccessMeansAllBytes ==
    hist.result = "success" => hist.received >= hist.totalSize

(***************************************************************************)
(* createAsyncLock (packages/core/src/utils/index.ts 117-161).  The queue  *)
(* holds the resolve functions of the waiting acquire promises; the model  *)
(* holds the callers they belong to.  A caller is "granted" when its       *)
(* promise is resolved and "body" once the continuation of withLock has    *)
(* called fn.  ticket numbers the withLock calls in the order they were    *)
(* made.                                                                   *)
(***************************************************************************)
Callers == 1..MaxCallers

NoLock ==
    [isLocked |-> FALSE, queue |-> <<>>, pc |-> [c \in Callers |-> "idle"],
     ticket |-> [c \in Callers |-> 0], issued |-> 0]

\* a release that always clears the flag
releaseClearing(h) ==
    IF Len(h.queue) > 0
    THEN [h EXCEPT !.queue = Tail(@), !.pc[Head(h.queue)] = "granted", !.isLocked = FALSE]
    ELSE [h EXCEPT !.isLocked = FALSE]

\* release (lines 139-146): queue.shift() is resolved, or isLocked = false
release(h) ==
    IF Len(h.queue) > 0
    THEN [h EXCEPT !.queue = Tail(@), !.pc[Head(h.queue)] = "granted"]
    ELSE [h EXCEPT !.isLocked = FALSE]

\* acquire (lines 125-134): the executor of the promise runs at once
acquire(h, c) ==
    IF ~h.isLocked
    THEN [h EXCEPT !.isLocked = TRUE, !.pc[c] = "granted"]
    ELSE [h EXCEPT !.queue = Append(@, c), !.pc[c] = "waiting"]

InitLock ==
    /\ shape = "single"
    /\ remote = [q \in PageIds |-> [let |-> 1, ver |-> 0]]
    /\ files = NoFiles
    /\ cacheDisk = NoFileContent
    /\ cacheMem = EmptyPages
    /\ pendingUpdates = {}
    /\ updatedChildPages = NoUpdated
    /\ resourcePageMap = NoOwners
    /\ cfg = NoConfig
    /\ tasks = <<>>
    /\ phase = "lib"
    /\ stats = ZeroStats
    /\ hist = NoLock

\* withLock, line 153: await this.acquire()
WithLockCall(c) ==
    /\ phase = "lib"
    /\ hist.pc[c] \in {"idle", "returned", "rejected"}
    /\ hist.issued < MaxTickets
    /\ hist' = acquire([hist EXCEPT !.issued = @ + 1, !.ticket[c] = hist.issued + 1], c)
    /\ UNCHANGED <<shape, remote, files, cacheDisk, cacheMem, pendingUpdates,
                   updatedChildPages, resourcePageMap, cfg, tasks, phase, stats>>

\* lines 153-155: the continuation after the acquire promise calls fn()
BodyStarts(c) ==
    /\ phase = "lib"
    /\ hist.pc[c] = "granted"
    /\ hist' = [hist EXCEPT !.pc[c] = "body"]
    /\ UNCHANGED <<shape, remote, files, cacheDisk, cacheMem, pendingUpdates,
                   updatedChildPages, resourcePageMap, cfg, tasks, phase, stats>>

\* lines 155-158: fn() resolves; finally release()
BodyResolves(c) ==
    /\ phase = "lib"
    /\ hist.pc[c] = "body"
    /\ hist' = release([hist EXCEPT !.pc[c] = "returned"])
    /\ UNCHANGED <<shape, remote, files, cacheDisk, cacheMem, pendingUpdates,
                   updatedChildPages, resourcePageMap, cfg, tasks, phase, stats>>

\* lines 155-158: fn() throws or rejects; finally release(), withLock rejects
BodyRejects(c) ==
    /\ phase = "lib"
    /\ hist.pc[c] = "body"
    /\ hist' = release([hist EXCEPT !.pc[c] = "rejected"])
    /\ UNCHANGED <<shape, remote, files, cacheDisk, cacheMem, pendingUpdates,
                   updatedChildPages, resourcePageMap, cfg, tasks, phase, stats>>

NextLock ==
    \/ \E c \in Callers : WithLockCall(c)
    \/ \E c \in Callers : BodyStarts(c)
    \/ \E c \in Callers : BodyResolves(c)
    \/ \E c \in Callers : BodyRejects(c)

SpecLock == InitLock /\ [][NextLock]_vars

InsideLock(h) == { c \in Callers : h.pc[c] \in {"granted", "body"} }
Waiting(h) == { c \in Callers : h.pc[c] = "waiting" }

\* C40: at most one caller of withLock is inside the lock after every step;
\* a caller that stops waiting is the one that waited longest; after a body
\* rejected its caller is outside and the lock is free or handed on.
C40_OneBodyInsideLock ==
    [][ /\ Cardinality(InsideLock(hist')) <= 1
        /\ \A c \in Waiting(hist) :
              c \notin Waiting(hist')
                  => /\ hist'.pc[c] = "granted"
                     /\ \A w \in Waiting(hist) : hist.ticket[c] <= hist.ticket[w]
        /\ \A c \in Callers :
              (hist.pc[c] = "body" /\ hist'.pc[c] = "rejected")
                  => IF Waiting(hist) = {}
                     THEN ~hist'.isLocked /\ InsideLock(hist') = {}
                     ELSE hist'.isLocked /\ Cardinality(InsideLock(hist')) = 1
      ]_vars

C40_Witness ==
    \E a, b, c \in Callers :
        /\ hist.pc[a] = "rejected"
        /\ hist.pc[b] = "body"
        /\ hist.pc[c] = "waiting"
        /\ hist.ticket[a] < hist.ticket[b]
        /\ hist.ticket[b] < hist.ticket[c]

====
